---- MODULE Spec2Model ----
(***************************************************************************)
(* ViperBoxInterface: the settings data model and range parser             *)
(* (src/VB_classes.py), the validation and merge engine                    *)
(* (src/XML_handler.py) and the device lifecycle state machine             *)
(* (src/viperboxinterface/control.py, data_thread.py, server.py).          *)
(*                                                                         *)
(* Strings are sequences of one-character strings, so that the parser is   *)
(* computed character by character as the Python code computes it.         *)
(* A Python dict is a function whose DOMAIN is the set of its keys.        *)
(***************************************************************************)
EXTENDS Integers, Sequences, FiniteSets, TLC

(***************************************************************************)
(* Bounds of the model and constants of the program                        *)
(***************************************************************************)
MaxScriptLen == 2
MaxCalls == 4
MaxClock == 2
MaxStimrecSettings == 16
NumChannels == 64
NumSUs == 8
NumElectrodes == 128
NumProbes == 4

(***************************************************************************)
(* Python strings and int()                                                *)
(***************************************************************************)
DigitChars == {"0", "1", "2", "3", "4", "5", "6", "7", "8", "9"}

DigitVal(c) ==
    CASE c = "0" -> 0 [] c = "1" -> 1 [] c = "2" -> 2 [] c = "3" -> 3
      [] c = "4" -> 4 [] c = "5" -> 5 [] c = "6" -> 6 [] c = "7" -> 7
      [] c = "8" -> 8 [] c = "9" -> 9

IsNumeric(s) == s # << >> /\ \A i \in 1..Len(s) : s[i] \in DigitChars

RECURSIVE DigitsToNat(_)
DigitsToNat(s) ==
    IF s = << >> THEN 0
    ELSE 10 * DigitsToNat(SubSeq(s, 1, Len(s) - 1)) + DigitVal(s[Len(s)])

\* int(s) raises ValueError unless s is an optional sign and a run of digits
can_int(s) ==
    \/ IsNumeric(s)
    \/ Len(s) > 1 /\ s[1] \in {"-", "+"} /\ IsNumeric(Tail(s))

py_int(s) ==
    IF s[1] = "-" THEN 0 - DigitsToNat(Tail(s))
    ELSE IF s[1] = "+" THEN DigitsToNat(Tail(s))
    ELSE DigitsToNat(s)

\* pat in s, for a two-character pattern
Contains2(s, a, b) == \E i \in 1..(Len(s) - 1) : s[i] = a /\ s[i + 1] = b

Contains(s, c) == \E i \in 1..Len(s) : s[i] = c

RECURSIVE split(_, _)
split(s, sep) ==
    IF Contains(s, sep)
    THEN LET i == CHOOSE k \in 1..Len(s) :
                      s[k] = sep /\ \A j \in 1..(k - 1) : s[j] # sep
         IN  << SubSeq(s, 1, i - 1) >> \o split(SubSeq(s, i + 1, Len(s)), sep)
    ELSE << s >>

RECURSIVE replace(_, _, _)
replace(s, old, new) ==
    IF s = << >> THEN << >>
    ELSE << (IF s[1] = old THEN new ELSE s[1]) >> \o replace(Tail(s), old, new)

\* int(text, 2) for a text of binary digits
RECURSIVE int2(_)
int2(text) ==
    IF text = << >> THEN 0
    ELSE 2 * int2(SubSeq(text, 1, Len(text) - 1))
         + (IF text[Len(text)] = "1" THEN 1 ELSE 0)

\* bin(n)[2:]
RECURSIVE bin(_)
bin(n) ==
    IF n < 2 THEN << IF n = 1 THEN "1" ELSE "0" >>
    ELSE bin(n \div 2) \o << IF n % 2 = 1 THEN "1" ELSE "0" >>

reversed(q) == [i \in 1..Len(q) |-> q[Len(q) + 1 - i]]

\* sorted(S) for a finite set of integers
RECURSIVE sorted_between(_, _, _)
sorted_between(S, lo, hi) ==
    IF S = {} THEN << >>
    ELSE IF lo = hi THEN << lo >>
    ELSE LET mid == (lo + hi) \div 2 IN
         sorted_between({x \in S : x <= mid}, lo, mid)
         \o sorted_between({x \in S : x > mid}, mid + 1, hi)

SortedSeq(S) ==
    IF S = {} THEN << >>
    ELSE sorted_between(S, CHOOSE x \in S : \A y \in S : x <= y,
                           CHOOSE x \in S : \A y \in S : x >= y)

SeqToSet(q) == {q[i] : i \in 1..Len(q)}

\* list(range(a, b))
range(a, b) == [i \in 1..(b - a) |-> a + i - 1]

(***************************************************************************)
(* parse_numbers (src/VB_classes.py)                                       *)
(* The result is [exc, val]: exc is "none" or the exception raised.        *)
(***************************************************************************)
Raise(e) == [exc |-> e, val |-> << >>]
Return(v) == [exc |-> "none", val |-> v]

\* the numbers of a range item, split at its dash
range_item(split_item) ==
    IF Len(split_item) # 2 THEN [exc |-> "ValueError", set |-> {}]
    ELSE IF ~can_int(split_item[1]) \/ ~can_int(split_item[2])
    THEN [exc |-> "ValueError", set |-> {}]
    ELSE IF py_int(split_item[1]) > py_int(split_item[2])
    THEN [exc |-> "none",
          set |-> SeqToSet(range(py_int(split_item[2]), py_int(split_item[1]) + 1))]
    ELSE [exc |-> "none",
          set |-> SeqToSet(range(py_int(split_item[1]), py_int(split_item[2]) + 1))]

\* one item of the comma-separated list: [exc, set]
parse_item(item) ==
    IF item = << >> THEN [exc |-> "IndexError", set |-> {}]
    ELSE IF item[1] = "-" THEN [exc |-> "ValueError", set |-> {}]
    ELSE IF item[Len(item)] = "-" THEN [exc |-> "ValueError", set |-> {}]
    ELSE IF Contains(item, "-") THEN range_item(split(item, "-"))
    ELSE IF ~can_int(item) THEN [exc |-> "ValueError", set |-> {}]
    ELSE [exc |-> "none", set |-> {py_int(item)}]

\* the loop over the items: the first item that raises ends it
RECURSIVE parse_items(_, _)
next_item(r, items, acc) ==
    IF r.exc # "none" THEN r ELSE parse_items(Tail(items), acc \cup r.set)

parse_items(items, acc) ==
    IF items = << >> THEN [exc |-> "none", set |-> acc]
    ELSE next_item(parse_item(items[1]), items, acc)

\* the check at the end of parse_numbers: every number is one of all_values
in_all_values(result, all_values) ==
    IF result.exc # "none" THEN result
    ELSE IF ~(SeqToSet(result.val) \subseteq SeqToSet(all_values))
    THEN Raise("ValueError")
    ELSE result

\* the numbers of the items, as parse_numbers and parse_references return them
items_result(r, shift) ==
    IF r.exc # "none" THEN Raise(r.exc)
    ELSE Return(SortedSeq({n - shift : n \in r.set}))

parse_numbers(numstr, all_values) ==
    IF Contains2(numstr, ",", ",") THEN Raise("ValueError")
    ELSE IF Contains2(numstr, "-", "-") THEN Raise("ValueError")
    ELSE in_all_values(
             IF numstr = << "-" >> THEN Return(all_values)
             ELSE IF Len(numstr) = 1
             THEN IF can_int(numstr)
                  THEN Return(<< py_int(numstr) - 1 >>)
                  ELSE Raise("ValueError")
             ELSE items_result(parse_items(split(numstr, ","), {}), 1),
             all_values)

(***************************************************************************)
(* parse_references (src/VB_classes.py): the result is a Python list of    *)
(* the nine characters "1"/"0", index i for reference i.                   *)
(***************************************************************************)
\* the list of "1" and "0" parse_references makes of its numbers
reference_list(result) ==
    IF result.exc # "none" THEN result
    ELSE Return([i \in 1..9 |->
                    IF (i - 1) \in SeqToSet(result.val) THEN "1" ELSE "0"])

parse_replaced(refstr) ==
    reference_list(in_all_values(
        IF refstr = << "-" >> THEN Return(range(0, 9))
        ELSE IF Len(refstr) = 1
        THEN IF can_int(refstr)
             THEN Return(<< py_int(refstr) >>)
             ELSE Raise("ValueError")
        ELSE items_result(parse_items(split(refstr, ","), {}), 0),
        range(0, 9)))

parse_references(refstr0) ==
    IF Contains2(refstr0, ",", ",") THEN Raise("ValueError")
    ELSE IF Contains2(refstr0, "-", "-") THEN Raise("ValueError")
    ELSE parse_replaced(replace(refstr0, "b", "0"))

(***************************************************************************)
(* Settings data model (src/VB_classes.py)                                 *)
(***************************************************************************)
EmptyMap == [x \in {} |-> 0]

Put(f, k, v) == [x \in (DOMAIN f) \cup {k} |-> IF x = k THEN v ELSE f[x]]

PutAll(f, keys, v) == [x \in (DOMAIN f) \cup keys |-> IF x \in keys THEN v ELSE f[x]]

ProbeSettings == [channel |-> EmptyMap,
                  stim_unit_sett |-> EmptyMap,
                  stim_unit_elec |-> EmptyMap]

BoxSettings == [probes |-> EmptyMap]

GeneralSettings == [boxes |-> EmptyMap]

ConnectedProbes == [probes |-> EmptyMap]

ConnectedBoxes == [boxes |-> EmptyMap]

\* GeneralSettings.connected: the populated boxes, each with its probe ids
gs_connected(settings) ==
    [box \in {b \in DOMAIN settings.boxes : DOMAIN settings.boxes[b].probes # {}}
        |-> SortedSeq(DOMAIN settings.boxes[box].probes)]

reset_recording_settings(settings) ==
    [boxes |-> [box \in DOMAIN settings.boxes |->
        [probes |-> [probe \in DOMAIN settings.boxes[box].probes |->
            [settings.boxes[box].probes[probe] EXCEPT !.channel = EmptyMap]]]]]

reset_stimulation_settings(settings) ==
    [boxes |-> [box \in DOMAIN settings.boxes |->
        [probes |-> [probe \in DOMAIN settings.boxes[box].probes |->
            [settings.boxes[box].probes[probe] EXCEPT
                !.stim_unit_sett = EmptyMap, !.stim_unit_elec = EmptyMap]]]]]

reset_probe_settings(settings) ==
    [boxes |-> [box \in DOMAIN settings.boxes |->
        [probes |-> [probe \in DOMAIN settings.boxes[box].probes |->
            ProbeSettings]]]]

\* ChanSettings.from_dict: references is what parse_references returns (a list),
\* gain and input are int() of the attribute
ChanSettings_of(refs, env) ==
    IF refs.exc # "none" THEN Raise(refs.exc)
    ELSE IF ~can_int(env.gain) \/ ~can_int(env.input) THEN Raise("ValueError")
    ELSE Return([references |-> [type |-> "list", chars |-> refs.val],
                 gain |-> py_int(env.gain),
                 input |-> py_int(env.input)])

ChanSettings_from_dict(env) == ChanSettings_of(parse_references(env.references), env)

\* ChanSettings.get_refs: int(self.references, 2) accepts a str only
get_refs(chan) ==
    IF chan.references.type # "str" THEN Raise("TypeError")
    ELSE Return(int2(chan.references.chars))

SUFields == << "polarity", "pulses", "prephase", "amplitude1", "width1",
               "interphase", "amplitude2", "width2", "discharge", "duration",
               "aftertrain" >>

SUSettings_from_dict(env) ==
    IF \E i \in 1..Len(SUFields) : ~can_int(env[SUFields[i]])
    THEN Raise("ValueError")
    ELSE Return([k \in SeqToSet(SUFields) |-> py_int(env[k])])

\* ProbeSettings.os_data: the 8 x 128 matrix, given by its entries that are 1;
\* None when no electrode map is stored
os_data(probe_settings) ==
    IF DOMAIN probe_settings.stim_unit_elec = {} THEN [type |-> "None", ones |-> {}]
    ELSE [type |-> "array",
          ones |-> UNION {{<< su, elec >> :
                             elec \in SeqToSet(probe_settings.stim_unit_elec[su])} :
                          su \in DOMAIN probe_settings.stim_unit_elec}]

(***************************************************************************)
(* Validation and merge engine (src/XML_handler.py)                        *)
(* A document is a sequence of records [section, tag, attrib]: section is  *)
(* the tag of the parent element, tag the tag of the setting itself.       *)
(***************************************************************************)
check_gain_input_format(gain) ==
    IF ~can_int(gain) THEN "ValueError"
    ELSE IF (py_int(gain) + 1) \notin {1, 2, 3, 4} THEN "ValueError"
    ELSE "none"

\* name, step, min, max
verify_params ==
    << << "polarity", 1, 0, 1 >>,
       << "pulses", 1, 0, 255 >>,
       << "amplitude1", 1, 0, 255 >>,
       << "amplitude2", 1, 0, 255 >>,
       << "duration", 100, 100, 25500 >>,
       << "prephase", 100, 0, 25500 >>,
       << "width1", 10, 0, 2550 >>,
       << "interphase", 10, 10, 2550 >>,
       << "width2", 10, 0, 2550 >>,
       << "discharge", 100, 0, 25500 >>,
       << "aftertrain", 100, 0, 25500 >> >>

screen_name == {"pulses", "prephase", "amplitude1", "width1", "interphase",
                "amplitude2", "width2", "discharge", "duration", "aftertrain"}

\* verify_step_min_max accepting every value
verify_step_min_max_skipped(name, step, min_val, max_val, value) == "none"

\* the message is built from screen_name[name], a KeyError for a name it lacks
verify_step_min_max(name, step, min_val, max_val, value) ==
    IF ~(min_val <= value /\ value <= max_val)
    THEN (IF name \in screen_name THEN "ValueError" ELSE "KeyError")
    ELSE IF (value - min_val) % step # 0
    THEN (IF name \in screen_name THEN "ValueError" ELSE "KeyError")
    ELSE "none"

\* what the check of one parameter p of verify_params raises
verify_one(p, attrib) ==
    IF ~can_int(attrib[p[1]]) THEN "ValueError"
    ELSE verify_step_min_max(p[1], p[2], p[3], p[4], py_int(attrib[p[1]]))

\* the loop over verify_params for one Configuration: the first failure, among
\* the parameters failed that fail, ends it
verify_first(failed, attrib) ==
    IF failed = {} THEN "none"
    ELSE verify_one(verify_params[CHOOSE i \in failed : \A j \in failed : i <= j],
                    attrib)

verify_all(attrib, i) ==
    verify_first({k \in i..Len(verify_params) :
                     verify_one(verify_params[k], attrib) # "none"}, attrib)

\* the body of the probe loop of overwrite_settings for each tag: [exc, val]
\* with val the ProbeSettings after the record is written
write_channel(ps, rec, all_channels, c) ==
    IF all_channels.exc # "none" THEN [exc |-> all_channels.exc, val |-> ps]
    ELSE IF check_gain_input_format(rec.attrib.gain) # "none"
    THEN [exc |-> "ValueError", val |-> ps]
    ELSE IF check_gain_input_format(rec.attrib.input) # "none"
    THEN [exc |-> "ValueError", val |-> ps]
    ELSE IF c.exc # "none" THEN [exc |-> c.exc, val |-> ps]
    ELSE Return([ps EXCEPT !.channel = PutAll(@, SeqToSet(all_channels.val), c.val)])

write_configuration(ps, rec, all_waveforms, e, su) ==
    IF all_waveforms.exc # "none" THEN [exc |-> all_waveforms.exc, val |-> ps]
    ELSE IF e # "none" THEN [exc |-> e, val |-> ps]
    ELSE Return([ps EXCEPT !.stim_unit_sett =
                    PutAll(@, SeqToSet(all_waveforms.val), su.val)])

\* write_mapping adding the electrodes to the list a unit already has
write_mapping_appending(ps, rec, all_mappings, electrodes) ==
    IF all_mappings.exc # "none" THEN [exc |-> all_mappings.exc, val |-> ps]
    ELSE IF electrodes.exc # "none" THEN [exc |-> electrodes.exc, val |-> ps]
    ELSE Return([ps EXCEPT !.stim_unit_elec =
                    [su \in (DOMAIN @) \cup SeqToSet(all_mappings.val) |->
                        IF su \notin SeqToSet(all_mappings.val) THEN @[su]
                        ELSE IF su \in DOMAIN @ THEN @[su] \o electrodes.val
                        ELSE electrodes.val]])

write_mapping(ps, rec, all_mappings, electrodes) ==
    IF all_mappings.exc # "none" THEN [exc |-> all_mappings.exc, val |-> ps]
    ELSE IF electrodes.exc # "none" THEN [exc |-> electrodes.exc, val |-> ps]
    ELSE Return([ps EXCEPT !.stim_unit_elec =
                    PutAll(@, SeqToSet(all_mappings.val), electrodes.val)])

write_record(ps, rec) ==
    IF rec.tag = "Channel"
    THEN write_channel(ps, rec,
                       parse_numbers(rec.attrib.channel, range(0, NumChannels)),
                       ChanSettings_from_dict(rec.attrib))
    ELSE IF rec.tag = "Configuration"
    THEN write_configuration(ps, rec,
                             parse_numbers(rec.attrib.stimunit, range(0, NumSUs)),
                             verify_all(rec.attrib, 1),
                             SUSettings_from_dict(rec.attrib))
    ELSE IF rec.tag = "Mapping"
    THEN write_mapping(ps, rec,
                       parse_numbers(rec.attrib.stimunit, range(0, NumSUs)),
                       parse_numbers(rec.attrib.electrodes, range(0, NumElectrodes)))
    ELSE Return(ps)

ProbeOf(settings, box, probe) ==
    IF box \in DOMAIN settings.boxes /\ probe \in DOMAIN settings.boxes[box].probes
    THEN settings.boxes[box].probes[probe]
    ELSE ProbeSettings

SetProbe(settings, box, probe, ps) ==
    [boxes |-> Put(settings.boxes, box,
        [probes |-> Put(IF box \in DOMAIN settings.boxes
                        THEN settings.boxes[box].probes ELSE EmptyMap,
                        probe, ps)])]

\* for probe in probes: ...
RECURSIVE over_probes(_, _, _, _)
next_probe(r, settings, rec, box, probes) ==
    IF r.exc # "none" THEN [exc |-> r.exc, val |-> settings]
    ELSE over_probes(SetProbe(settings, box, probes[1], r.val), rec, box, Tail(probes))

over_probes(settings, rec, box, probes) ==
    IF probes = << >> THEN Return(settings)
    ELSE next_probe(write_record(ProbeOf(settings, box, probes[1]), rec),
                    settings, rec, box, probes)

\* for box in boxes: probes = parse_numbers(attrib["probe"], universe[box]) ...
RECURSIVE over_boxes(_, _, _, _)
next_box(r, rec, boxes, universe) ==
    IF r.exc # "none" THEN r ELSE over_boxes(r.val, rec, Tail(boxes), universe)

box_probes(probes, settings, rec, boxes, universe) ==
    IF probes.exc # "none" THEN [exc |-> probes.exc, val |-> settings]
    ELSE next_box(over_probes(settings, rec, boxes[1], probes.val),
                  rec, boxes, universe)

over_boxes(settings, rec, boxes, universe) ==
    IF boxes = << >> THEN Return(settings)
    ELSE box_probes(parse_numbers(rec.attrib.probe, universe[boxes[1]]),
                    settings, rec, boxes, universe)

topic_tags(check_topic) ==
    IF check_topic = "all"
    THEN {"RecordingSettings", "StimulationWaveformSettings",
          "StimulationMappingSettings"}
    ELSE IF check_topic = "recording" THEN {"RecordingSettings"}
    ELSE {"StimulationWaveformSettings", "StimulationMappingSettings"}

\* the loop of overwrite_settings over the document, the addresses resolved
\* against universe(settings): [exc, val]
RECURSIVE over_records(_, _, _, _)
next_record(r, data_xml, check_topic, topology) ==
    IF r.exc # "none" THEN r
    ELSE over_records(Tail(data_xml), r.val, check_topic, topology)

record_boxes(boxes, data_xml, settings, check_topic, topology, universe) ==
    IF boxes.exc # "none" THEN [exc |-> boxes.exc, val |-> settings]
    ELSE next_record(over_boxes(settings, data_xml[1], boxes.val, universe),
                     data_xml, check_topic, topology)

record_universe(data_xml, settings, check_topic, topology, universe) ==
    record_boxes(parse_numbers(data_xml[1].attrib.box, SortedSeq(DOMAIN universe)),
                 data_xml, settings, check_topic, topology, universe)

over_records(data_xml, settings, check_topic, topology) ==
    IF data_xml = << >> THEN Return(settings)
    ELSE IF data_xml[1].section \notin topic_tags(check_topic)
    THEN over_records(Tail(data_xml), settings, check_topic, topology)
    ELSE record_universe(data_xml, settings, check_topic, topology,
                         IF topology.own THEN gs_connected(settings)
                         ELSE topology.map)

overwrite_settings(data_xml, local_settings, check_topic) ==
    over_records(data_xml, local_settings, check_topic,
                 [own |-> TRUE, map |-> EmptyMap])

(***************************************************************************)
(* The ViperBox object (src/viperboxinterface/control.py) and the device.  *)
(* Every operation is an operator from the state s of the object (a record *)
(* of its fields, the device nvp and the data thread included) to the      *)
(* state after the call; s.ret is what the call gave its caller:           *)
(* [op, raised, ok, msg], raised for an exception that left the call.      *)
(* The choices of the device (what is attached, which call raises) are the *)
(* last parameter of an operation.                                         *)
(***************************************************************************)
VARIABLES local_settings, connected, uploaded_settings, tracking, box_ptrs,
          boxless, emulation, rec_start_time, stim_file_path, recording_name,
          data_thread, nvp, journal, ret, script, rec_path, calls, clock,
          abort_file, worker, applied, uploads

vars == << local_settings, connected, uploaded_settings, tracking, box_ptrs,
           boxless, emulation, rec_start_time, stim_file_path, recording_name,
           data_thread, nvp, journal, ret, script, rec_path, calls, clock,
           abort_file, worker, applied, uploads >>

StatusTracking == [recording |-> FALSE,
                   recording_settings_uploaded |-> FALSE,
                   stimulation_settings_uploaded |-> FALSE,
                   box_connected |-> FALSE,
                   stimulation_settings_written_to_stimrec |-> "unset",
                   stimset_upload_times |-> "unset"]

\* the device behind NeuraviperPy: the handle and what was written through it
NVP_init == [handle |-> "none",
             emulator |-> "OFF",
             inited |-> {},
             chan_sel |-> {},
             chan_written |-> {},
             os_image |-> EmptyMap,
             os_written |-> {},
             su_cfg |-> EmptyMap,
             filestream |-> "",
             armed |-> FALSE,
             su_trigs |-> {}]

\* _DataSenderThread: thread is the target of the last thread started
DataThread_none == [exists |-> FALSE, thread |-> "None", alive |-> FALSE,
                    stop_stream |-> "None", closed |-> FALSE, rec |-> 0]

Ret(s, op, ok, msg) ==
    [s EXCEPT !.ret = [op |-> op, raised |-> FALSE, ok |-> ok, msg |-> msg]]

Exc(s, op, e) ==
    [s EXCEPT !.ret = [op |-> op, raised |-> TRUE, ok |-> FALSE, msg |-> e]]

\* what evaluating NVP.f(self._box_ptrs[box], ...) raises before f acts
ptr_exc(s, box) ==
    IF box \notin DOMAIN s.box_ptrs THEN "KeyError"
    ELSE IF s.nvp.handle # "open" THEN "NVPError"
    ELSE "none"

NoFail == [probe |-> 0 - 1, call |-> "none"]

Fails(fail, probe, call) == fail.probe = probe /\ fail.call = call

\* the (box, probe) pairs of a settings tree, in the order of its loops
BoxProbes(settings) ==
    LET RECURSIVE pairs(_)
        pairs(boxes) ==
            IF boxes = << >> THEN << >>
            ELSE LET ps == SortedSeq(DOMAIN settings.boxes[boxes[1]].probes) IN
                 [i \in 1..Len(ps) |-> << boxes[1], ps[i] >>] \o pairs(Tail(boxes))
    IN  pairs(SortedSeq(DOMAIN settings.boxes))

\* _upload_recording_settings for one probe: [exc, val] with val the device
upload_recording_probe(s, dev, settings, box, probe, fail) ==
    LET channel == settings.boxes[box].probes[probe].channel
        chans == SortedSeq(DOMAIN channel)
        e == ptr_exc(s, box)
        staged ==
            IF chans = << >> THEN Return(dev)
            ELSE IF e # "none" THEN [exc |-> e, val |-> dev]
            ELSE IF Fails(fail, probe, "selectElectrode")
            THEN [exc |-> "NVPError", val |-> dev]
            ELSE IF get_refs(channel[chans[1]]).exc # "none"
            THEN [exc |-> get_refs(channel[chans[1]]).exc,
                  val |-> [dev EXCEPT !.chan_sel = @ \cup {<< probe, chans[1] >>}]]
            ELSE IF Fails(fail, probe, "setReference")
            THEN [exc |-> "NVPError",
                  val |-> [dev EXCEPT !.chan_sel = @ \cup {<< probe, chans[1] >>}]]
            ELSE Return([dev EXCEPT !.chan_sel =
                            @ \cup {<< probe, c >> : c \in DOMAIN channel}])
    IN  IF staged.exc # "none" THEN staged
        ELSE IF s.emulation THEN staged
        ELSE IF e # "none" THEN [exc |-> e, val |-> staged.val]
        ELSE IF Fails(fail, probe, "writeChannelConfiguration")
        THEN [exc |-> "NVPError", val |-> staged.val]
        ELSE Return([staged.val EXCEPT !.chan_written = @ \cup {probe}])

RECURSIVE upload_recording_loop(_, _, _, _, _)
upload_recording_loop(s, dev, settings, pairs, fail) ==
    IF pairs = << >> THEN Return(dev)
    ELSE LET r == upload_recording_probe(s, dev, settings,
                                         pairs[1][1], pairs[1][2], fail) IN
         IF r.exc # "none" THEN r
         ELSE upload_recording_loop(s, r.val, settings, Tail(pairs), fail)

upload_recording_settings(s, updated_tmp_settings, fail) ==
    IF s.boxless THEN Return(s.nvp)
    ELSE upload_recording_loop(s, s.nvp, updated_tmp_settings,
                               BoxProbes(updated_tmp_settings), fail)

\* _upload_stimulation_settings for one probe: [exc, val] with val the device
upload_stimulation_probe(s, dev, settings, box, probe, fail) ==
    LET ps == settings.boxes[box].probes[probe]
        e == ptr_exc(s, box)
        d1 == [dev EXCEPT !.os_image = Put(@, probe, os_data(ps))]
        d2 == [d1 EXCEPT !.os_written = @ \cup {probe}]
    IN  IF e # "none" THEN [exc |-> e, val |-> dev]
        ELSE IF Fails(fail, probe, "setOSimage")
        THEN [exc |-> "NVPError", val |-> dev]
        ELSE IF Fails(fail, probe, "writeOsConfiguration")
        THEN [exc |-> "NVPError", val |-> d1]
        ELSE IF DOMAIN ps.stim_unit_sett # {}
                /\ Fails(fail, probe, "writeSUConfiguration")
        THEN [exc |-> "NVPError", val |-> d2]
        ELSE Return([d2 EXCEPT !.su_cfg =
                        Put(@, probe,
                            [su \in (IF probe \in DOMAIN @ THEN DOMAIN @[probe]
                                     ELSE {}) \cup DOMAIN ps.stim_unit_sett |->
                                IF su \in DOMAIN ps.stim_unit_sett
                                THEN ps.stim_unit_sett[su] ELSE @[probe][su]])])

RECURSIVE upload_stimulation_loop(_, _, _, _, _)
upload_stimulation_loop(s, dev, settings, pairs, fail) ==
    IF pairs = << >> THEN Return(dev)
    ELSE LET r == upload_stimulation_probe(s, dev, settings,
                                           pairs[1][1], pairs[1][2], fail) IN
         IF r.exc # "none" THEN r
         ELSE upload_stimulation_loop(s, r.val, settings, Tail(pairs), fail)

upload_stimulation_settings(s, updated_tmp_settings, fail) ==
    IF s.boxless THEN Return(s.nvp)
    ELSE upload_stimulation_loop(s, s.nvp, updated_tmp_settings,
                                 BoxProbes(updated_tmp_settings), fail)

(***************************************************************************)
(* Configuration documents                                                 *)
(***************************************************************************)
Channel(box, probe, channel, references, gain, input) ==
    [section |-> "RecordingSettings", tag |-> "Channel",
     attrib |-> [box |-> box, probe |-> probe, channel |-> channel,
                 references |-> references, gain |-> gain, input |-> input]]

Configuration(box, probe, stimunit, polarity, amplitude1, width1) ==
    [section |-> "StimulationWaveformSettings", tag |-> "Configuration",
     attrib |-> [box |-> box, probe |-> probe, stimunit |-> stimunit,
                 polarity |-> polarity, pulses |-> << "2", "0" >>,
                 prephase |-> << "0" >>, amplitude1 |-> amplitude1,
                 width1 |-> width1, interphase |-> << "6", "0" >>,
                 amplitude2 |-> << "1" >>, width2 |-> << "1", "7", "0" >>,
                 discharge |-> << "2", "0", "0" >>,
                 duration |-> << "6", "0", "0" >>,
                 aftertrain |-> << "0" >>]]

Mapping(box, probe, stimunit, electrodes) ==
    [section |-> "StimulationMappingSettings", tag |-> "Mapping",
     attrib |-> [box |-> box, probe |-> probe, stimunit |-> stimunit,
                 electrodes |-> electrodes]]

\* defaults/default_recording_settings.xml
default_recording_settings ==
    << Channel(<< "-" >>, << "-" >>, << "-" >>, << "b" >>, << "0" >>, << "0" >>) >>

\* defaults/default_stimulation_settings.xml
default_stimulation_settings ==
    << Configuration(<< "-" >>, << "-" >>, << "-" >>, << "0" >>, << "1" >>,
                     << "1", "7", "0" >>),
       Mapping(<< "-" >>, << "-" >>, << "-" >>, << "1" >>) >>

\* defaults/default_settings.xml
default_settings_xml == default_recording_settings \o default_stimulation_settings

(***************************************************************************)
(* Settings upload (control.py)                                            *)
(***************************************************************************)
\* every connected (box, probe) gets an entry in the working copy
add_connected(settings, conn) ==
    [boxes |-> [box \in (DOMAIN settings.boxes) \cup (DOMAIN conn.boxes) |->
        [probes |->
            [probe \in (IF box \in DOMAIN settings.boxes
                        THEN DOMAIN settings.boxes[box].probes ELSE {})
                       \cup (IF box \in DOMAIN conn.boxes
                             THEN DOMAIN conn.boxes[box].probes ELSE {}) |->
                ProbeOf(settings, box, probe)]]]]

topology_of(conn) ==
    [own |-> FALSE,
     map |-> [box \in DOMAIN conn.boxes |-> SortedSeq(DOMAIN conn.boxes[box].probes)]]

\* the first box attribute of the document that does not resolve: check_boxes_exist
RECURSIVE check_boxes_exist(_, _)
next_box_check(r, data, existing_boxes) ==
    IF r.exc # "none" THEN r.exc ELSE check_boxes_exist(Tail(data), existing_boxes)

check_boxes_exist(data, existing_boxes) ==
    IF data = << >> THEN "none"
    ELSE next_box_check(parse_numbers(data[1].attrib.box, existing_boxes),
                        data, existing_boxes)

\* [exc, ok, val]: exc an exception that is not caught, ok the result, val the
\* working copy as the check leaves it
check_result(tmp, b, r) ==
    IF b = "ValueError" THEN [exc |-> "none", ok |-> FALSE, val |-> tmp]
    ELSE IF b # "none" THEN [exc |-> b, ok |-> FALSE, val |-> tmp]
    ELSE IF r.exc = "ValueError" THEN [exc |-> "none", ok |-> FALSE, val |-> r.val]
    ELSE IF r.exc # "none" THEN [exc |-> r.exc, ok |-> FALSE, val |-> r.val]
    ELSE [exc |-> "none", ok |-> TRUE, val |-> r.val]

check_working_copy(data, tmp, conn, check_topic) ==
    check_result(tmp, check_boxes_exist(data, SortedSeq(DOMAIN conn.boxes)),
                 over_records(data, tmp, check_topic, topology_of(conn)))

check_xml_boxprobes_exist_and_verify_data_with_settings(data, settings, conn, check_topic) ==
    check_working_copy(data, add_connected(settings, conn), conn, check_topic)

update_settings_with_XML(data, settings, check_topic) ==
    overwrite_settings(data, settings, check_topic)

\* a commit that does not look at the result of the upload
recording_commit_always(s, updated_tmp_settings, up) ==
    Ret([s EXCEPT !.nvp = up.val,
                  !.local_settings = updated_tmp_settings,
                  !.uploaded_settings = updated_tmp_settings],
        "recording_settings", up.exc = "none", "UploadError")

\* recording_settings after the upload: the commit
recording_commit(s, updated_tmp_settings, up) ==
    IF up.exc # "none"
    THEN Ret([s EXCEPT !.nvp = up.val], "recording_settings", FALSE, "UploadError")
    ELSE Ret([s EXCEPT !.nvp = up.val,
                       !.local_settings = updated_tmp_settings,
                       !.uploaded_settings = updated_tmp_settings],
             "recording_settings", TRUE, "Recording settings loaded")

\* recording_settings from the upload on: the device first, then the commit
recording_upload_commit(s, updated_tmp_settings, fail) ==
    recording_commit(s, updated_tmp_settings,
                     upload_recording_settings(s, updated_tmp_settings, fail))

recording_updated(s, upd, fail) ==
    IF upd.exc # "none" THEN Exc(s, "recording_settings", upd.exc)
    ELSE recording_upload_commit(s, upd.val, fail)

recording_checked(s, XML_data, reset, chk, fail) ==
    IF chk.exc # "none" THEN Exc(s, "recording_settings", chk.exc)
    ELSE IF ~chk.ok THEN Ret(s, "recording_settings", FALSE, "ValidationError")
    ELSE recording_updated(
             s,
             update_settings_with_XML(
                 XML_data,
                 IF reset THEN reset_recording_settings(chk.val) ELSE chk.val,
                 "recording"),
             fail)

recording_document(s, XML_data, reset, fail) ==
    recording_checked(s, XML_data, reset,
                      check_xml_boxprobes_exist_and_verify_data_with_settings(
                          XML_data, s.local_settings, s.connected, "recording"),
                      fail)

\* xml is [type, doc]: type "None", "malformed" or "doc"
recording_settings(s, xml, reset, default_values, fail) ==
    IF ~s.boxless /\ ~s.tracking.box_connected
    THEN Ret(s, "recording_settings", FALSE, "NotConnected")
    ELSE IF s.tracking.recording
    THEN Ret(s, "recording_settings", FALSE, "RecordingInProgress")
    ELSE IF ~default_values /\ xml.type = "None"
    THEN Ret(s, "recording_settings", FALSE, "InvalidXML")
    ELSE IF ~default_values /\ xml.type = "malformed"
    THEN Exc(s, "recording_settings", "XMLSyntaxError")
    ELSE recording_document(s, IF default_values THEN default_recording_settings
                               ELSE xml.doc,
                            reset, fail)

\* a commit that replaces the live settings and leaves the baseline
stimulation_commit_live_only(s, updated_tmp_settings, up) ==
    IF up.exc # "none"
    THEN Ret([s EXCEPT !.nvp = up.val], "stimulation_settings", FALSE, "UploadError")
    ELSE Ret([s EXCEPT !.nvp = up.val,
                       !.tracking.stimulation_settings_uploaded = TRUE,
                       !.tracking.stimulation_settings_written_to_stimrec = "False",
                       !.tracking.stimset_upload_times = "set",
                       !.local_settings = updated_tmp_settings],
             "stimulation_settings", TRUE, "Stimulation settings loaded")

\* stimulation_settings after the upload: the commit
stimulation_commit(s, updated_tmp_settings, up) ==
    IF up.exc # "none"
    THEN Ret([s EXCEPT !.nvp = up.val], "stimulation_settings", FALSE, "UploadError")
    ELSE Ret([s EXCEPT !.nvp = up.val,
                       !.uploaded_settings = updated_tmp_settings,
                       !.tracking.stimulation_settings_uploaded = TRUE,
                       !.tracking.stimulation_settings_written_to_stimrec = "False",
                       !.tracking.stimset_upload_times = "set",
                       !.local_settings = updated_tmp_settings],
             "stimulation_settings", TRUE, "Stimulation settings loaded")

\* stimulation_settings from the upload on
stimulation_upload_commit(s, updated_tmp_settings, fail) ==
    stimulation_commit(s, updated_tmp_settings,
                       upload_stimulation_settings(s, updated_tmp_settings, fail))

stimulation_updated(s, upd, fail) ==
    IF upd.exc # "none" THEN Exc(s, "stimulation_settings", upd.exc)
    ELSE stimulation_upload_commit(s, upd.val, fail)

stimulation_checked(s, XML_data, reset, chk, fail) ==
    IF chk.exc # "none" THEN Exc(s, "stimulation_settings", chk.exc)
    ELSE IF ~chk.ok THEN Ret(s, "stimulation_settings", FALSE, "ValidationError")
    ELSE stimulation_updated(
             s,
             update_settings_with_XML(
                 XML_data,
                 IF reset THEN reset_stimulation_settings(chk.val) ELSE chk.val,
                 "stimulation"),
             fail)

stimulation_document(s, XML_data, reset, fail) ==
    stimulation_checked(s, XML_data, reset,
                        check_xml_boxprobes_exist_and_verify_data_with_settings(
                            XML_data, s.local_settings, s.connected, "stimulation"),
                        fail)

stimulation_settings(s, xml, reset, default_values, fail) ==
    IF ~s.boxless /\ ~s.tracking.box_connected
    THEN Ret(s, "stimulation_settings", FALSE, "NotConnected")
    ELSE IF ~default_values /\ xml.type = "None"
    THEN Ret(s, "stimulation_settings", FALSE, "InvalidXML")
    ELSE IF ~default_values /\ xml.type = "malformed"
    THEN Exc(s, "stimulation_settings", "XMLSyntaxError")
    ELSE stimulation_document(s, IF default_values THEN default_stimulation_settings
                                 ELSE xml.doc,
                              reset, fail)

\* default_settings after the uploads: the commit
default_commit(s, updated_tmp_settings, up1, up2) ==
    IF up1.exc # "none"
    THEN Ret([s EXCEPT !.nvp = up1.val], "default_settings", FALSE, "UploadError")
    ELSE IF up2.exc # "none"
    THEN Ret([s EXCEPT !.nvp = up2.val], "default_settings", FALSE, "UploadError")
    ELSE Ret([s EXCEPT !.nvp = up2.val,
                       !.tracking.stimulation_settings_uploaded = TRUE,
                       !.tracking.stimulation_settings_written_to_stimrec = "False",
                       !.tracking.stimset_upload_times = "set",
                       !.local_settings = updated_tmp_settings,
                       !.uploaded_settings = updated_tmp_settings],
             "default_settings", TRUE, "Default settings loaded")

default_second_upload(s, updated_tmp_settings, up1, fail) ==
    default_commit(s, updated_tmp_settings, up1,
                   upload_stimulation_settings([s EXCEPT !.nvp = up1.val],
                                               updated_tmp_settings, fail))

\* default_settings from the uploads on
default_upload_commit(s, updated_tmp_settings, fail) ==
    default_second_upload(s, updated_tmp_settings,
                          upload_recording_settings(s, updated_tmp_settings, fail),
                          fail)

default_updated(s, upd1, upd2, fail) ==
    IF upd1.exc # "none" THEN Exc(s, "default_settings", upd1.exc)
    ELSE IF upd2.exc # "none" THEN Exc(s, "default_settings", upd2.exc)
    ELSE default_upload_commit(s, upd2.val, fail)

default_first_update(s, upd1, fail) ==
    default_updated(s, upd1,
                    update_settings_with_XML(default_settings_xml, upd1.val,
                                             "stimulation"),
                    fail)

default_checked(s, chk, fail) ==
    IF chk.exc # "none" THEN Exc(s, "default_settings", chk.exc)
    ELSE IF ~chk.ok THEN Ret(s, "default_settings", FALSE, "ValidationError")
    ELSE default_first_update(
             s,
             update_settings_with_XML(default_settings_xml,
                                      reset_probe_settings(chk.val), "recording"),
             fail)

default_settings(s, fail) ==
    IF ~s.boxless /\ ~s.tracking.box_connected
    THEN Ret(s, "default_settings", FALSE, "NotConnected")
    ELSE IF s.tracking.recording
    THEN Ret(s, "default_settings", FALSE, "RecordingInProgress")
    ELSE default_checked(s,
                         check_xml_boxprobes_exist_and_verify_data_with_settings(
                             default_settings_xml, s.local_settings, s.connected,
                             "all"),
                         fail)

(***************************************************************************)
(* Connect and disconnect (control.py, data_thread.py)                     *)
(***************************************************************************)
\* _DataSenderThread.shutdown as disconnect calls it, inside try/except: stop()
\* sets the stop event and joins the worker, then both sockets are closed
data_thread_shutdown(dt) ==
    IF ~dt.exists \/ dt.stop_stream = "None" THEN dt
    ELSE [dt EXCEPT !.stop_stream = "set", !.alive = FALSE, !.closed = TRUE]

\* _DataSenderThread.start
data_thread_start(dt, empty, rec) ==
    IF dt.thread # "None" /\ dt.alive THEN dt
    ELSE [dt EXCEPT !.stop_stream = "clear",
                    !.thread = IF empty THEN "_send_empty" ELSE "send_data",
                    !.alive = TRUE,
                    !.rec = rec]

\* the device part of disconnect, from the try on
disconnect_device(s, fail) ==
    IF 0 \notin DOMAIN s.box_ptrs
    THEN Ret(s, "disconnect", FALSE, "CantDisconnect")
    ELSE IF s.nvp.handle # "open" THEN Exc(s, "disconnect", "NVPError")
    ELSE IF fail = "closeProbes" THEN Exc(s, "disconnect", "NVPError")
    ELSE Ret([s EXCEPT !.nvp.handle = "destroyed",
                       !.tracking.box_connected = FALSE,
                       !.uploaded_settings = GeneralSettings],
             "disconnect", TRUE, "ViperBox disconnected")

disconnect(s0, fail) ==
    LET s == [s0 EXCEPT !.data_thread = data_thread_shutdown(@)] IN
    IF s.boxless THEN Ret(s, "disconnect", TRUE, "Boxless")
    ELSE IF ~s.tracking.box_connected THEN Ret(s, "disconnect", TRUE, "NotConnected")
    ELSE disconnect_device(s, fail)

shutdown_result(r) ==
    IF r.ret.raised THEN Exc(r, "shutdown", r.ret.msg)
    ELSE Ret(r, "shutdown", TRUE, "ViperBox shutdown")

shutdown(s, fail) == shutdown_result(disconnect(s, fail))

\* the loop of connect over the probes: NVP.init raises for a probe outside init_ok
RECURSIVE init_probes(_, _, _)
init_probes(s, probe_list_int, init_ok) ==
    IF probe_list_int = << >> THEN s
    ELSE LET probe == probe_list_int[1] IN
         IF ptr_exc(s, 0) = "none" /\ probe \in init_ok
         THEN init_probes(
                  [s EXCEPT !.nvp.inited = @ \cup {probe},
                            !.local_settings.boxes[0].probes =
                                Put(@, probe, ProbeSettings),
                            !.connected.boxes[0].probes = Put(@, probe, TRUE)],
                  Tail(probe_list_int), init_ok)
         ELSE init_probes(s, Tail(probe_list_int), init_ok)

\* connect in boxless mode, after the disconnect: the results of the two
\* uploads are not looked at
boxless_stimulation(s2) ==
    IF s2.ret.raised THEN Exc(s2, "connect", s2.ret.msg)
    ELSE Ret(s2, "connect", TRUE, "Boxless")

boxless_recording(s1) ==
    IF s1.ret.raised THEN Exc(s1, "connect", s1.ret.msg)
    ELSE boxless_stimulation(
             stimulation_settings(s1, [type |-> "None"], FALSE, TRUE, NoFail))

connect_boxless(s0) ==
    boxless_recording(
        recording_settings(
            [s0 EXCEPT !.connected.boxes =
                Put(@, 0, [probes |-> Put(EmptyMap, 0, TRUE)])],
            [type |-> "None"], FALSE, TRUE, NoFail))

\* connect when openProbes raised: disconnect, then the failure
open_probes_failed(d) ==
    IF d.ret.raised THEN Exc(d, "connect", d.ret.msg)
    ELSE Ret(d, "connect", FALSE, "OpenProbesFailed")

\* connect after the probes are initialised
connect_done(s4) ==
    Ret([s4 EXCEPT !.uploaded_settings = s4.local_settings],
        "connect", TRUE, "ViperBox initialized")

\* connect with a box, from the device scan on; o is what the device does:
\* [devices, fail, init_ok, dfail]
connect_device(s0, probe_list_int, o) ==
    IF o.devices = 0 THEN Ret(s0, "connect", FALSE, "NoDeviceFound")
    ELSE IF o.devices > 1 THEN Ret(s0, "connect", FALSE, "MultipleDevicesFound")
    ELSE LET s1 == [s0 EXCEPT !.local_settings.boxes = Put(@, 0, BoxSettings),
                              !.connected.boxes = Put(@, 0, ConnectedProbes),
                              !.tracking.box_connected = TRUE]
             s2 == [s1 EXCEPT !.box_ptrs = Put(@, 0, TRUE),
                              !.nvp = [NVP_init EXCEPT !.handle = "open"]]
             s3 == [s2 EXCEPT !.nvp.emulator =
                                  IF s0.emulation THEN "STATIC" ELSE "OFF"]
         IN  IF o.fail = "createHandle" THEN Exc(s1, "connect", "NVPError")
             ELSE IF o.fail = "openBS" THEN Exc(s2, "connect", "NVPError")
             ELSE IF o.fail = "openProbes"
             THEN open_probes_failed(disconnect(s3, o.dfail))
             ELSE connect_done(init_probes(s3, probe_list_int, o.init_ok))

\* connect after the disconnect of a connected box
connect_parsed(s2, bxl, probe_list_int, o) ==
    IF s2.ret.raised THEN Exc(s2, "connect", s2.ret.msg)
    ELSE IF bxl THEN connect_boxless(s2)
    ELSE IF probe_list_int.exc = "ValueError"
    THEN Ret(s2, "connect", FALSE, "InvalidProbeList")
    ELSE IF probe_list_int.exc # "none"
    THEN Exc(s2, "connect", probe_list_int.exc)
    ELSE connect_device(s2, probe_list_int.val, o)

connect_modes(s1, probe_list, bxl, o) ==
    connect_parsed(IF s1.tracking.box_connected THEN disconnect(s1, o.dfail)
                   ELSE Ret(s1, "disconnect", TRUE, "not called"),
                   bxl, parse_numbers(probe_list, range(0, NumProbes)), o)

connect(s, probe_list, emu, bxl, o) ==
    connect_modes([s EXCEPT !.boxless = bxl, !.emulation = emu], probe_list, bxl, o)

\* connect_oe: o is [http_ok, acquire], what Open Ephys answers
connect_oe(s, reset, o) ==
    IF ~s.data_thread.exists
    THEN LET s1 == [s EXCEPT !.data_thread =
                        data_thread_start([DataThread_none EXCEPT !.exists = TRUE],
                                          TRUE, 0)]
         IN  IF ~o.http_ok THEN Exc(s1, "connect_oe", "ConnectionError")
             ELSE Ret(s1, "connect_oe", TRUE, "Data thread created")
    ELSE IF reset
    THEN LET s1 == [s EXCEPT !.data_thread =
                        data_thread_start([DataThread_none EXCEPT !.exists = TRUE],
                                          TRUE, 0)]
         IN  IF ~o.http_ok THEN Exc(s1, "connect_oe", "ConnectionError")
             ELSE Ret(s1, "connect_oe", TRUE, "Data thread recreated")
    ELSE IF ~o.http_ok THEN Exc(s, "connect_oe", "ConnectionError")
    ELSE IF ~o.acquire
    THEN Ret([s EXCEPT !.data_thread = data_thread_start(@, TRUE, 0)],
             "connect_oe", TRUE, "Open Ephys running and connected")
    ELSE Ret(s, "connect_oe", TRUE, "Open Ephys running and connected")

(***************************************************************************)
(* The stimulation record (XML_handler.py)                                 *)
(***************************************************************************)
\* a block of the record: a Settings block has sections, each [name, entries],
\* an Instructions block has entries
SettingsBlock(sections) == [tag |-> "Settings", sections |-> sections, entries |-> << >>]
InstructionsBlock(entries) ==
    [tag |-> "Instructions", sections |-> << >>, entries |-> entries]

create_empty_xml == << SettingsBlock(<< >>) >>

sub_type_map(sub_type) ==
    CASE sub_type = "Channel" -> "RecordingSettings"
      [] sub_type = "Configuration" -> "StimulationWaveformSettings"
      [] sub_type = "Mapping" -> "StimulationMappingSettings"
      [] OTHER -> "Instructions"

\* settings_dict is [box, probe, id, itype, strs]: id is the channel or stimunit,
\* a number below 0 stands for a key the dict lacks, strs are the keys holding text
plus_one(settings_dict) ==
    [settings_dict EXCEPT !.box = IF @ >= 0 THEN @ + 1 ELSE @,
                          !.probe = IF @ >= 0 THEN @ + 1 ELSE @,
                          !.id = IF @ >= 0 THEN @ + 1 ELSE @]

\* a new element goes in behind the first element of its section
add_to_section(sections, name, entry) ==
    IF \E i \in 1..Len(sections) : sections[i].name = name
    THEN LET i == CHOOSE k \in 1..Len(sections) :
                      /\ sections[k].name = name
                      /\ \A m \in 1..(k - 1) : sections[m].name # name
             old == sections[i].entries
         IN  [sections EXCEPT ![i].entries =
                 IF old = << >> THEN << entry >>
                 ELSE << old[1], entry >> \o Tail(old)]
    ELSE Append(sections, [name |-> name, entries |-> << entry >>])

\* [exc, val] with val the record after the call
add_to_stimrec(path, rec, main_type, sub_type, settings_dict) ==
    IF path = "None" THEN [exc |-> "ValueError", val |-> rec]
    ELSE IF settings_dict.strs \cap {"box", "probe", "channel", "stimunit"} # {}
    THEN [exc |-> "TypeError", val |-> rec]
    ELSE LET entry == [plus_one(settings_dict) EXCEPT !.strs = {}]
             last == rec[Len(rec)]
         IN  IF main_type = "Settings"
             THEN (IF Len(rec) = 1
                   THEN Return([rec EXCEPT ![1].sections =
                            add_to_section(@, sub_type_map(sub_type), entry)])
                   ELSE IF last.tag = "Instructions"
                   THEN Return(Append(rec, SettingsBlock(
                            add_to_section(<< >>, sub_type_map(sub_type), entry))))
                   ELSE Return([rec EXCEPT ![Len(rec)].sections =
                            add_to_section(@, sub_type_map(sub_type), entry)]))
             ELSE (IF last.tag = "Instructions"
                   THEN Return([rec EXCEPT ![Len(rec)].entries = Append(@, entry)])
                   ELSE Return(Append(rec, InstructionsBlock(<< entry >>))))

Setting(sub_type, box, probe, id) ==
    [type |-> sub_type, box |-> box, probe |-> probe, id |-> id,
     itype |-> "", strs |-> {}]

Instruction(itype, box, probe, strs) ==
    [type |-> "Instruction", box |-> box, probe |-> probe, id |-> 0 - 1,
     itype |-> itype, strs |-> strs]

\* add_to_stimrec in a loop over dicts lo to hi, in their order: the first
\* exception ends it
RECURSIVE add_between(_, _, _, _, _, _)
add_rest(r, path, main_type, dicts, lo, hi) ==
    IF r.exc # "none" THEN r
    ELSE add_between(path, r.val, main_type, dicts, lo, hi)

add_between(path, rec, main_type, dicts, lo, hi) ==
    IF lo > hi THEN Return(rec)
    ELSE IF lo = hi
    THEN add_to_stimrec(path, rec, main_type, dicts[lo].type, dicts[lo])
    ELSE add_rest(add_between(path, rec, main_type, dicts, lo, (lo + hi) \div 2),
                  path, main_type, dicts, (lo + hi) \div 2 + 1, hi)

add_all(path, rec, main_type, dicts) ==
    add_between(path, rec, main_type, dicts, 1, Len(dicts))

\* the dicts start_recording writes for the channels of the uploaded settings
channel_dicts(settings) ==
    LET RECURSIVE dicts(_)
        dicts(pairs) ==
            IF pairs = << >> THEN << >>
            ELSE LET box == pairs[1][1]
                     probe == pairs[1][2]
                     chans == SortedSeq(DOMAIN settings.boxes[box].probes[probe].channel)
                 IN  [i \in 1..Len(chans) |-> Setting("Channel", box, probe, chans[i])]
                     \o dicts(Tail(pairs))
    IN  dicts(BoxProbes(settings))

\* _stimrec_write_stimulation_settings: the dicts it writes, in its order
stimulation_dicts(settings) ==
    LET RECURSIVE dicts(_)
        dicts(pairs) ==
            IF pairs = << >> THEN << >>
            ELSE LET box == pairs[1][1]
                     probe == pairs[1][2]
                     ps == settings.boxes[box].probes[probe]
                     cfg == SortedSeq(DOMAIN ps.stim_unit_sett)
                     map == SortedSeq(DOMAIN ps.stim_unit_elec)
                 IN  [i \in 1..Len(cfg) |-> Setting("Configuration", box, probe, cfg[i])]
                     \o [i \in 1..Len(map) |-> Setting("Mapping", box, probe, map[i])]
                     \o dicts(Tail(pairs))
    IN  dicts(BoxProbes(settings))

(***************************************************************************)
(* Recording and stimulation (control.py)                                  *)
(***************************************************************************)
\* the check of start_recording on the uploaded settings
all_channels_uploaded(settings) ==
    \A box \in DOMAIN settings.boxes :
        \A probe \in DOMAIN settings.boxes[box].probes :
            Cardinality(DOMAIN settings.boxes[box].probes[probe].channel) = NumChannels

\* the value of _rec_path after the name is looked at; path is what the file
\* system holds under a name with a separator: "missing", "dir" or "file"
new_rec_path(s, name, path) ==
    IF ~(Contains(name, "\\") \/ Contains(name, "/"))
    THEN "Recordings"
    ELSE IF path = "missing" THEN s.rec_path
    ELSE path

\* start_recording from the device calls on; o is [fail, path]
start_recording_device(s0, o) ==
    LET e == ptr_exc(s0, 0)
        s1 == [s0 EXCEPT !.nvp.filestream = s0.rec_path]
        s2 == [s1 EXCEPT !.nvp.armed = TRUE]
        s3 == [s2 EXCEPT !.rec_start_time = "set"]
        s4 == [s3 EXCEPT !.stim_file_path = "set"]
        s5 == [s4 EXCEPT !.journal = create_empty_xml]
        w == add_all(s5.stim_file_path, s5.journal, "Settings",
                     channel_dicts(s5.uploaded_settings))
        i == add_to_stimrec(s5.stim_file_path, w.val, "Instructions", "Instruction",
                            Instruction("recording_start", 0 - 1, 0 - 1, {}))
        s6 == [s5 EXCEPT !.journal = i.val, !.tracking.recording = TRUE]
        s7 == [s6 EXCEPT !.data_thread = data_thread_start(@, FALSE, 1)]
    IN  IF e # "none" THEN Exc(s0, "start_recording", e)
        ELSE IF o.fail = "setFileStream" THEN Exc(s0, "start_recording", "NVPError")
        ELSE IF o.fail = "arm" THEN Exc(s1, "start_recording", "NVPError")
        ELSE IF o.fail = "setSWTrigger" THEN Exc(s3, "start_recording", "NVPError")
        ELSE IF o.fail = "create_empty_xml" THEN Exc(s4, "start_recording", "OSError")
        ELSE IF w.exc # "none"
        THEN Exc([s5 EXCEPT !.journal = w.val], "start_recording", w.exc)
        ELSE IF i.exc # "none"
        THEN Exc([s5 EXCEPT !.journal = i.val], "start_recording", i.exc)
        ELSE IF ~s6.data_thread.exists THEN Exc(s6, "start_recording", "AttributeError")
        ELSE IF s7.rec_path = "None" THEN Exc(s7, "start_recording", "AttributeError")
        ELSE IF o.fail = "requests.put" THEN Exc(s7, "start_recording", "ConnectionError")
        ELSE Ret(s7, "start_recording", TRUE, "Recording started")

\* a start that does not look at the recording flag
start_recording_unchecked(s, name, o) ==
    IF ~(s.boxless \/ s.emulation) /\ ~s.tracking.box_connected
    THEN Ret(s, "start_recording", FALSE, "NotConnected")
    ELSE IF ~s.emulation /\ ~all_channels_uploaded(s.uploaded_settings)
    THEN Ret(s, "start_recording", FALSE, "IncompleteRecordingSettings")
    ELSE start_recording_device(
             [s EXCEPT !.recording_name = name,
                       !.rec_path = new_rec_path(s, name, o.path)], o)

start_recording(s, name, o) ==
    IF ~(s.boxless \/ s.emulation) /\ ~s.tracking.box_connected
    THEN Ret(s, "start_recording", FALSE, "NotConnected")
    ELSE IF s.tracking.recording
    THEN Ret(s, "start_recording", FALSE, "AlreadyRecording")
    ELSE IF ~s.emulation /\ ~all_channels_uploaded(s.uploaded_settings)
    THEN Ret(s, "start_recording", FALSE, "IncompleteRecordingSettings")
    ELSE start_recording_device(
             [s EXCEPT !.recording_name = name,
                       !.rec_path = new_rec_path(s, name, o.path)], o)

\* fail is the device call that raises, or "none"
stop_recording(s, fail) ==
    IF ~s.tracking.box_connected
    THEN Ret(s, "stop_recording", FALSE, "NotConnected")
    ELSE IF ~s.tracking.recording
    THEN Ret(s, "stop_recording", FALSE, "NotRecording")
    ELSE LET e == ptr_exc(s, 0)
             s1 == [s EXCEPT !.nvp.armed = TRUE]
             s2 == [s1 EXCEPT !.nvp.filestream = ""]
             i == add_to_stimrec(s2.stim_file_path, s2.journal, "Instructions",
                                 "Instruction",
                                 Instruction("recording_stop", 0 - 1, 0 - 1, {}))
         IN  IF e # "none" THEN Exc(s, "stop_recording", e)
             ELSE IF fail = "arm" THEN Exc(s, "stop_recording", "NVPError")
             ELSE IF fail = "setFileStream" THEN Exc(s1, "stop_recording", "NVPError")
             ELSE IF i.exc # "none" THEN Exc(s2, "stop_recording", i.exc)
             ELSE Ret([s2 EXCEPT !.journal = i.val,
                                 !.tracking.recording = FALSE,
                                 !.rec_start_time = "None"],
                      "stop_recording", TRUE, "Recording stopped")

\* _SU_list_to_bitmask without SU_string[::-1]: unit 0 is the first character
\* of the binary text
SU_list_to_bitmask_unreversed(SU_list) ==
    int2([k \in 1..NumSUs |-> IF (k - 1) \in SeqToSet(SU_list) THEN "1" ELSE "0"])

SU_list_to_bitmask(SU_list) ==
    LET SU_string == [k \in 1..NumSUs |->
                         IF (k - 1) \in SeqToSet(SU_list) THEN "1" ELSE "0"]
    IN  int2(reversed(SU_string))

\* the bitmask start_stimulation computes for one probe, and the lookups of its
\* log line: [exc, val]
mask_lookups(ps, mask, text) ==
    IF \E index \in 1..Len(text) :
           text[index] = "1" /\ (index - 1) \notin DOMAIN ps.stim_unit_elec
    THEN Raise("KeyError")
    ELSE Return(mask)

mask_of(ps, mask) == mask_lookups(ps, mask, bin(mask))

parsed_mask(ps, r) ==
    IF r.exc # "none" THEN Raise(r.exc)
    ELSE mask_of(ps, SU_list_to_bitmask(r.val))

\* probe_mask resolving the units against all units of a probe
probe_mask_any(ps, SU_input) ==
    parsed_mask(ps, parse_numbers(SU_input, range(0, NumSUs)))

probe_mask(ps, SU_input) ==
    parsed_mask(ps, parse_numbers(SU_input, SortedSeq(DOMAIN ps.stim_unit_sett)))

\* SU_dict as a sequence of << box, probe, mask >>: [exc, val]
prepend(m, box, probe, rest) ==
    IF m.exc # "none" THEN Raise(m.exc)
    ELSE IF rest.exc # "none" THEN rest
    ELSE Return(<< << box, probe, m.val >> >> \o rest.val)

RECURSIVE SU_dict_probes(_, _, _, _)
SU_dict_probes(settings, box, plist, SU_input) ==
    IF plist = << >> THEN Return(<< >>)
    ELSE prepend(probe_mask(settings.boxes[box].probes[plist[1]], SU_input),
                 box, plist[1],
                 SU_dict_probes(settings, box, Tail(plist), SU_input))

joined(here, rest) ==
    IF here.exc # "none" THEN here
    ELSE IF rest.exc # "none" THEN rest
    ELSE Return(here.val \o rest.val)

RECURSIVE SU_dict_boxes(_, _, _, _)
SU_dict_box(settings, blist, pr, probes, SU_input) ==
    IF pr.exc # "none" THEN Raise(pr.exc)
    ELSE joined(SU_dict_probes(settings, blist[1], pr.val, SU_input),
                SU_dict_boxes(settings, Tail(blist), probes, SU_input))

SU_dict_boxes(settings, blist, probes, SU_input) ==
    IF blist = << >> THEN Return(<< >>)
    ELSE SU_dict_box(settings, blist,
                     parse_numbers(probes,
                                   SortedSeq(DOMAIN settings.boxes[blist[1]].probes)),
                     probes, SU_input)

SU_dict_parsed(settings, bx, probes, SU_input) ==
    IF bx.exc # "none" THEN Raise(bx.exc)
    ELSE SU_dict_boxes(settings, bx.val, probes, SU_input)

SU_dict(settings, boxes, probes, SU_input) ==
    SU_dict_parsed(settings, parse_numbers(boxes, SortedSeq(DOMAIN settings.boxes)),
                   probes, SU_input)

\* the trigger loop: [exc, val] with val the device
RECURSIVE trigger_all(_, _, _, _)
trigger_all(s, dev, targets, fail) ==
    IF targets = << >> THEN Return(dev)
    ELSE LET box == targets[1][1]
             probe == targets[1][2]
         IN  IF ptr_exc(s, box) # "none" THEN [exc |-> ptr_exc(s, box), val |-> dev]
             ELSE IF Fails(fail, probe, "SUtrig1")
             THEN [exc |-> "NVPError", val |-> dev]
             ELSE trigger_all(s, [dev EXCEPT !.su_trigs =
                                     @ \cup {<< probe, targets[1][3] >>}],
                              Tail(targets), fail)

\* start_stimulation from the record on: the lazy write of the settings, then
\* one instruction for each target; SU_input is passed on as text
stimulation_record(s, targets) ==
    LET flush == IF s.tracking.stimulation_settings_written_to_stimrec = "False"
                    /\ s.stim_file_path # "None"
                 THEN add_all(s.stim_file_path, s.journal, "Settings",
                              stimulation_dicts(s.uploaded_settings))
                 ELSE Return(s.journal)
        s1 == [s EXCEPT !.journal = flush.val]
        s2 == [s1 EXCEPT !.tracking.stimulation_settings_written_to_stimrec = "True"]
        ins == add_all(s2.stim_file_path, s2.journal, "Instructions",
                       [i \in 1..Len(targets) |->
                           Instruction("stimulation_start", targets[i][1],
                                       targets[i][2], {"stimunit"})])
    IN  IF s.tracking.stimulation_settings_written_to_stimrec = "unset"
        THEN Exc(s, "start_stimulation", "AttributeError")
        ELSE IF flush.exc # "none" THEN Exc(s1, "start_stimulation", flush.exc)
        ELSE IF ins.exc # "none"
        THEN Exc([s2 EXCEPT !.journal = ins.val], "start_stimulation", ins.exc)
        ELSE Ret([s2 EXCEPT !.journal = ins.val],
                 "start_stimulation", TRUE, "Stimulation started")

stimulation_triggered(s, targets, t) ==
    IF t.exc # "none" THEN Exc([s EXCEPT !.nvp = t.val], "start_stimulation", t.exc)
    ELSE stimulation_record([s EXCEPT !.nvp = t.val], targets)

stimulation_targets(s, d, fail) ==
    IF d.exc # "none" THEN Exc(s, "start_stimulation", d.exc)
    ELSE stimulation_triggered(s, d.val, trigger_all(s, s.nvp, d.val, fail))

start_stimulation(s, boxes, probes, SU_input, fail) ==
    IF ~s.tracking.box_connected
    THEN Ret(s, "start_stimulation", FALSE, "NotConnected")
    ELSE IF ~s.tracking.recording
    THEN Ret(s, "start_stimulation", FALSE, "NotRecording")
    ELSE IF ~s.tracking.stimulation_settings_uploaded
    THEN Ret(s, "start_stimulation", FALSE, "StimulationSettingsNotUploaded")
    ELSE stimulation_targets(s, SU_dict(s.uploaded_settings, boxes, probes, SU_input),
                             fail)

(***************************************************************************)
(* Scripts (control.py)                                                    *)
(***************************************************************************)
\* a script is [valid, file_name, entries]; an entry is [kind, rec, tail,
\* start_time]: kind is the tag of a settings element or the type of an
\* instruction, rec the settings element or the attributes of the instruction,
\* tail the length of the text between the element and the next tag
SettingsEntry(rec, tail, start_time) ==
    [kind |-> rec.tag, rec |-> rec, tail |-> tail, start_time |-> start_time]

InstructionEntry(itype, box, probe, stimunit, start_time) ==
    [kind |-> itype,
     rec |-> [box |-> box, probe |-> probe, stimunit |-> stimunit],
     tail |-> 0, start_time |-> start_time]

check_script_validity(doc) == doc.valid

\* xml_string of run_script: the element as text without its last 3 characters,
\* between the opening and closing tags of a one-record document
xml_string(entry) ==
    IF entry.tail >= 3 THEN [type |-> "doc", doc |-> << entry.rec >>]
    ELSE [type |-> "malformed", doc |-> << >>]

\* the thread of run_script: entries are the entries its loop has not come to,
\* initial_time is the variable of that name; started (the clock at the start),
\* doc (all entries), log (the entries whose call was made, each with the clock
\* at the call) and abort_at (the length of log when an abort was requested, or
\* -1) record its history
ScriptIdle ==
    [state |-> "idle", file_name |-> << >>, entries |-> << >>, initial_time |-> 0 - 2,
     started |-> 0, doc |-> << >>, log |-> << >>, abort_at |-> 0 - 1]

\* the loop comes to its next entry: at a recording_start it sets initial_time
script_reach(s) ==
    IF s.script.entries # << >> /\ Head(s.script.entries).kind = "recording_start"
    THEN [s EXCEPT !.script.initial_time = s.clock]
    ELSE s

\* run_script from `initial_time = -2.0` to the first entry of its loop
script_started(s, doc) ==
    script_reach([s EXCEPT !.script = [ScriptIdle EXCEPT !.state = "running",
                                                         !.file_name = doc.file_name,
                                                         !.entries = doc.entries,
                                                         !.started = s.clock,
                                                         !.doc = doc.entries]])

\* the instant the wait in front of the next entry ends
script_due(s) == s.script.initial_time + Head(s.script.entries).start_time

\* run_script going to its loop without the reset of the session
run_script_unreset(s, doc, init_ok) ==
    IF s.tracking.recording
    THEN Ret(s, "run_script", FALSE, "RecordingInProgress")
    ELSE IF ~check_script_validity(doc)
    THEN Ret(s, "run_script", FALSE, "InvalidScript")
    ELSE Ret(script_started(s, doc), "run_script", TRUE, "Script running")

\* run_script up to its loop; init_ok tells whether NVP.init of probe 0 succeeds
run_script(s, doc, init_ok) ==
    IF s.tracking.recording
    THEN Ret(s, "run_script", FALSE, "RecordingInProgress")
    ELSE LET s1 == [s EXCEPT !.local_settings = [boxes |-> Put(EmptyMap, 0, BoxSettings)],
                             !.connected = [boxes |-> Put(EmptyMap, 0, ConnectedProbes)],
                             !.uploaded_settings = GeneralSettings,
                             !.tracking = [StatusTracking EXCEPT !.box_connected = TRUE]]
             s2 == IF ptr_exc(s1, 0) = "none" /\ init_ok
                   THEN [s1 EXCEPT !.nvp.inited = @ \cup {0},
                                   !.local_settings.boxes[0].probes =
                                       Put(@, 0, ProbeSettings),
                                   !.connected.boxes[0].probes = Put(@, 0, TRUE)]
                   ELSE s1
             s3 == [s2 EXCEPT !.uploaded_settings = s2.local_settings]
         IN  IF ~check_script_validity(doc)
             THEN Ret(s3, "run_script", FALSE, "InvalidScript")
             ELSE Ret(script_started(s3, doc), "run_script", TRUE, "Script running")

\* one turn of the loop of run_script: the call the next entry stands for; an
\* exception it raises ends the script
script_call(s, entry, o) ==
    CASE entry.kind = "Channel" ->
             recording_settings(s, xml_string(entry), FALSE, FALSE, o.upload)
      [] entry.kind \in {"Configuration", "Mapping"} ->
             stimulation_settings(s, xml_string(entry), FALSE, TRUE, o.upload)
      [] entry.kind = "recording_start" ->
             start_recording(s, s.script.file_name, o.rec)
      [] entry.kind = "stimulation_start" ->
             start_stimulation(s, entry.rec.box, entry.rec.probe,
                               entry.rec.stimunit, o.upload)
      [] OTHER -> stop_recording(s, o.rec.fail)

script_continues(r) ==
    IF r.ret.raised THEN [r EXCEPT !.script = [@ EXCEPT !.state = "raised"]]
    ELSE script_reach([r EXCEPT !.script.entries = Tail(@)])

\* the call of the next entry goes into the log
script_logged(s) ==
    [s EXCEPT !.script.log = Append(@, [entry |-> Head(s.script.entries),
                                        at |-> s.clock])]

\* script_step taking the entry with the least start_time instead of the next
script_step_by_time(s, o) ==
    LET es == s.script.entries
        k == CHOOSE i \in 1..Len(es) :
                 \A j \in 1..Len(es) :
                     es[i].start_time < es[j].start_time
                         \/ (es[i].start_time = es[j].start_time /\ i <= j)
        rest == SubSeq(es, 1, k - 1) \o SubSeq(es, k + 1, Len(es))
        r == script_call([s EXCEPT !.script.log = Append(@, [entry |-> es[k],
                                                             at |-> s.clock])],
                         es[k], o)
    IN  IF r.ret.raised THEN [r EXCEPT !.script = [@ EXCEPT !.state = "raised"]]
        ELSE script_reach([r EXCEPT !.script.entries = rest])

script_step(s, o) ==
    script_continues(script_call(script_logged(s), Head(s.script.entries), o))

script_end(s) ==
    Ret([s EXCEPT !.script = ScriptIdle], "run_script", TRUE, "Script ran successfully")

\* the worker of the data thread returns: _send_empty after its buffers, send_data
\* when the stream gives no more samples, is stopped or raises
worker_exit(s) ==
    [s EXCEPT !.data_thread.alive = FALSE,
              !.ret = [op |-> "worker", raised |-> FALSE, ok |-> TRUE, msg |-> "exit"]]

(***************************************************************************)
(* The state machine                                                       *)
(***************************************************************************)
\* worker is the streaming worker of data_thread.py followed statement by
\* statement, applied a function of the program applied to arguments
NoWorker == [pc |-> "none"]
NoCall == [fn |-> "none", args |-> << >>, done |-> FALSE, result |-> << >>]

\* uploads follows a settings upload of the thread of run_script and one of the
\* thread that serves the requests, statement by statement
Threads == {"script", "request"}
NoUpload == [pc |-> "idle", call |-> [op |-> "none"], updated_tmp_settings |-> << >>, ok |-> FALSE]
NoUploads == [threads |-> [t \in Threads |-> NoUpload], overlapped |-> FALSE, before |-> [set |-> FALSE, s |-> << >>]]

Self == [local_settings |-> local_settings, connected |-> connected,
         uploaded_settings |-> uploaded_settings, tracking |-> tracking,
         box_ptrs |-> box_ptrs, boxless |-> boxless, emulation |-> emulation,
         rec_start_time |-> rec_start_time, stim_file_path |-> stim_file_path,
         recording_name |-> recording_name, data_thread |-> data_thread,
         nvp |-> nvp, journal |-> journal, ret |-> ret, script |-> script,
         rec_path |-> rec_path, clock |-> clock]

Becomes(r) ==
    /\ calls' = calls + 1
    /\ local_settings' = r.local_settings
    /\ connected' = r.connected
    /\ uploaded_settings' = r.uploaded_settings
    /\ tracking' = r.tracking
    /\ box_ptrs' = r.box_ptrs
    /\ boxless' = r.boxless
    /\ emulation' = r.emulation
    /\ rec_start_time' = r.rec_start_time
    /\ stim_file_path' = r.stim_file_path
    /\ recording_name' = r.recording_name
    /\ data_thread' = r.data_thread
    /\ nvp' = r.nvp
    /\ journal' = r.journal
    /\ ret' = r.ret
    /\ script' = r.script
    /\ rec_path' = r.rec_path
    /\ clock' = r.clock
    /\ abort_file' = abort_file
    /\ UNCHANGED << worker, applied, uploads >>

\* ViperBox.__init__
SessionInit ==
    /\ local_settings = GeneralSettings
    /\ connected = ConnectedBoxes
    /\ uploaded_settings = GeneralSettings
    /\ tracking = StatusTracking
    /\ box_ptrs = EmptyMap
    /\ boxless = FALSE
    /\ emulation = FALSE
    /\ rec_start_time = "None"
    /\ stim_file_path = "None"
    /\ recording_name = << >>
    /\ data_thread = DataThread_none
    /\ nvp = NVP_init
    /\ journal = << >>
    /\ ret = [op |-> "init", raised |-> FALSE, ok |-> TRUE, msg |-> ""]
    /\ script = ScriptIdle
    /\ rec_path = "None"
    /\ calls = 0
    /\ clock = 0
    /\ abort_file = FALSE

\* a session of calls: no streaming worker is followed step by step and no
\* function is applied on its own
Init ==
    /\ SessionInit
    /\ worker = NoWorker
    /\ applied = NoCall
    /\ uploads = NoUploads

(***************************************************************************)
(* The calls of a session: the arguments and what the device does          *)
(***************************************************************************)
Device(devices, fail, init_ok, dfail) ==
    [devices |-> devices, fail |-> fail, init_ok |-> init_ok, dfail |-> dfail]

ConnectCalls ==
    [probe_list : {<< "1" >>}, emu : BOOLEAN, bxl : {TRUE},
     o : {Device(1, "none", {}, "none")}]
    \cup [probe_list : {<< "1", ",", "2" >>}, emu : {FALSE}, bxl : {FALSE},
          o : {Device(1, "none", {}, "none"), Device(1, "none", {1}, "none"),
               Device(1, "none", {0, 1}, "none")}]
    \cup [probe_list : {<< "1", ",", "2" >>}, emu : {TRUE}, bxl : {FALSE},
          o : {Device(1, "none", {0, 1}, "none")}]
    \cup [probe_list : {<< "5" >>}, emu : {FALSE}, bxl : {FALSE},
          o : {Device(1, "none", {0, 1}, "none")}]
    \cup [probe_list : {<< "1" >>}, emu : {FALSE}, bxl : {FALSE},
          o : {Device(0, "none", {}, "none"), Device(2, "none", {}, "none"),
               Device(1, "openProbes", {}, "none"),
               Device(1, "openBS", {}, "none")}]

UploadFails == {NoFail, [probe |-> 0, call |-> "setOSimage"]}

NoDoc == [type |-> "None", doc |-> << >>]
Doc(records) == [type |-> "doc", doc |-> records]

RecordingCalls ==
    [xml : {NoDoc}, reset : {FALSE}, default_values : {TRUE},
     fail : {NoFail, [probe |-> 0, call |-> "selectElectrode"]}]
    \cup [xml : {Doc(<< Channel(<< "1" >>, << "1" >>, << "1" >>, << "2" >>,
                                << "1" >>, << "0" >>) >>)},
          reset : {TRUE}, default_values : {FALSE}, fail : {NoFail}]
    \cup [xml : {[type |-> "malformed", doc |-> << >>],
                 Doc(<< Channel(<< "1" >>, << "1" >>, << "1" >>, << "b" >>,
                                << "9" >>, << "0" >>) >>)},
          reset : {FALSE}, default_values : {FALSE}, fail : {NoFail}]
    \cup [xml : {Doc(<< Channel(<< "1" >>, << "1" >>, << "2" >>, << "b" >>,
                                << "1" >>, << "0" >>) >>),
                 Doc(<< [Configuration(<< "1" >>, << "1" >>, << "1" >>, << "0" >>,
                                       << "5" >>, << "1", "7", "0" >>)
                            EXCEPT !.section = "RecordingSettings"] >>)},
          reset : {FALSE}, default_values : {FALSE}, fail : {NoFail}]

StimulationCalls ==
    [xml : {NoDoc}, reset : {FALSE}, default_values : {TRUE},
     fail : {NoFail, [probe |-> 0, call |-> "setOSimage"]}]
    \cup [xml : {Doc(<< Configuration(<< "1" >>, << "1" >>, << "1" >>, << "0" >>,
                                      << "5" >>, << "1", "7", "0" >>),
                        Mapping(<< "1" >>, << "1" >>, << "1" >>,
                                << "1", "-", "2" >>) >>)},
          reset : {TRUE}, default_values : {FALSE}, fail : {NoFail}]
    \cup [xml : {NoDoc,
                 Doc(<< Configuration(<< "1" >>, << "1" >>, << "1" >>, << "2" >>,
                                      << "5" >>, << "1", "7", "0" >>) >>)},
          reset : {FALSE}, default_values : {FALSE}, fail : {NoFail}]

RecordingStarts ==
    [name : {<< >>}, o : [fail : {"none", "setSWTrigger"}, path : {"missing"}]]
    \cup [name : {<< "d", "/", "r" >>}, o : [fail : {"none"}, path : {"missing"}]]

StimulationStarts ==
    [boxes : {<< "1" >>}, probes : {<< "-" >>}, SU_input : {<< "1" >>, << "2" >>},
     fail : {NoFail}]
    \cup [boxes : {<< "2" >>}, probes : {<< "1" >>}, SU_input : {<< "1" >>},
          fail : {[probe |-> 0, call |-> "SUtrig1"]}]

\* the script every script of the model is a part of
FullScript ==
    << SettingsEntry(Channel(<< "1" >>, << "1" >>, << "-" >>, << "b" >>, << "0" >>,
                             << "0" >>), 3, 1),
       SettingsEntry(Mapping(<< "1" >>, << "1" >>, << "1" >>, << "1" >>), 3, 0),
       InstructionEntry("recording_start", << >>, << >>, << >>, 1),
       InstructionEntry("stimulation_start", << "1" >>, << "1" >>, << "1" >>, 1),
       InstructionEntry("recording_stop", << >>, << >>, << >>, 0),
       SettingsEntry(Channel(<< "1" >>, << "1" >>, << "1" >>, << "b" >>, << "0" >>,
                             << "0" >>), 0, 0) >>

\* a script call: the document and whether NVP.init of probe 0 succeeds
ScriptCalls ==
    {[doc |-> [valid |-> TRUE, file_name |-> << "r" >>,
               entries |-> SubSeq(FullScript, i, i + MaxScriptLen - 1)],
      init_ok |-> TRUE] : i \in 1..(Len(FullScript) + 1 - MaxScriptLen)}
    \cup {[doc |-> [valid |-> TRUE, file_name |-> << "r" >>,
                    entries |-> SubSeq(FullScript, 1, MaxScriptLen)],
           init_ok |-> FALSE],
          [doc |-> [valid |-> FALSE, file_name |-> << "r" >>, entries |-> << >>],
           init_ok |-> TRUE]}

ScriptChoices == [upload : {NoFail}, rec : [fail : {"none"}, path : {"missing"}]]

(***************************************************************************)
(* The actions: one for each operation                                     *)
(***************************************************************************)
\* the number of stimulation settings in the record
RECURSIVE stimrec_settings(_)
stimrec_settings(rec) ==
    IF rec = << >> THEN 0
    ELSE LET RECURSIVE count(_)
             count(sections) ==
                 IF sections = << >> THEN 0
                 ELSE (IF sections[1].name = "RecordingSettings" THEN 0
                       ELSE Len(sections[1].entries)) + count(Tail(sections))
         IN  count(rec[1].sections) + stimrec_settings(Tail(rec))

Connect ==
    /\ calls < MaxCalls
    /\ \E c \in ConnectCalls : Becomes(connect(Self, c.probe_list, c.emu, c.bxl, c.o))

Disconnect ==
    /\ calls < MaxCalls
    /\ \E fail \in {"none", "closeProbes"} : Becomes(disconnect(Self, fail))

Shutdown ==
    /\ calls < MaxCalls
    /\ \E fail \in {"none"} : Becomes(shutdown(Self, fail))

ConnectOE ==
    /\ calls < MaxCalls
    /\ \E reset \in BOOLEAN :
           Becomes(connect_oe(Self, reset, [http_ok |-> ~reset, acquire |-> FALSE]))

RecordingSettings ==
    /\ calls < MaxCalls
    /\ \E c \in RecordingCalls :
           Becomes(recording_settings(Self, c.xml, c.reset, c.default_values, c.fail))

StimulationSettings ==
    /\ calls < MaxCalls
    /\ \E c \in StimulationCalls :
           Becomes(stimulation_settings(Self, c.xml, c.reset, c.default_values, c.fail))

DefaultSettings ==
    /\ calls < MaxCalls
    /\ \E fail \in UploadFails : Becomes(default_settings(Self, fail))

StartRecording ==
    /\ calls < MaxCalls
    /\ \E c \in RecordingStarts : Becomes(start_recording(Self, c.name, c.o))

StopRecording ==
    /\ calls < MaxCalls
    /\ \E fail \in {"none", "setFileStream"} : Becomes(stop_recording(Self, fail))

StartStimulation ==
    /\ calls < MaxCalls
    /\ stimrec_settings(journal) < MaxStimrecSettings
    /\ \E c \in StimulationStarts :
           Becomes(start_stimulation(Self, c.boxes, c.probes, c.SU_input, c.fail))

RunScript ==
    /\ calls < MaxCalls
    /\ script.state # "running"
    /\ \E c \in ScriptCalls : Becomes(run_script(Self, c.doc, c.init_ok))

ScriptStep ==
    /\ calls < MaxCalls
    /\ script.state = "running"
    /\ script.entries # << >>
    /\ clock >= script_due(Self)
    /\ Head(script.entries).kind = "stimulation_start"
           => stimrec_settings(journal) < MaxStimrecSettings
    /\ \E o \in ScriptChoices : Becomes(script_step(Self, o))

ScriptEnd ==
    /\ calls < MaxCalls
    /\ script.state = "running"
    /\ script.entries = << >>
    /\ Becomes(script_end(Self))

WorkerExit ==
    /\ calls < MaxCalls
    /\ data_thread.alive
    /\ Becomes(worker_exit(Self))

\* the session without the last result, the script, the call count and the clock
SessionState == << local_settings, connected, uploaded_settings, tracking, box_ptrs,
                   boxless, emulation, rec_start_time, stim_file_path,
                   recording_name, data_thread, nvp, journal, rec_path >>

\* one turn of a wait of run_script, `while time.time() < initial_time +
\* float(start_time): time.sleep(0.01)`: the clock moves on
Tick ==
    /\ script.state = "running"
    /\ script.entries # << >>
    /\ clock < script_due(Self)
    /\ clock < MaxClock
    /\ clock' = clock + 1
    /\ ret' = [op |-> "sleep", raised |-> FALSE, ok |-> TRUE, msg |-> ""]
    /\ UNCHANGED << SessionState, script, calls, abort_file, worker, applied, uploads >>

\* /abort_script while a script runs: the file .abort_script is written
AbortScript ==
    /\ calls < MaxCalls
    /\ script.state = "running"
    /\ ~abort_file
    /\ abort_file' = TRUE
    /\ script' = [script EXCEPT !.abort_at = Len(script.log)]
    /\ calls' = calls + 1
    /\ ret' = [op |-> "abort_script", raised |-> FALSE, ok |-> TRUE,
               msg |-> "Script aborted"]
    /\ UNCHANGED << SessionState, clock, worker, applied, uploads >>

Next ==
    \/ Connect
    \/ Disconnect
    \/ Shutdown
    \/ ConnectOE
    \/ RecordingSettings
    \/ StimulationSettings
    \/ DefaultSettings
    \/ StartRecording
    \/ StopRecording
    \/ StartStimulation
    \/ RunScript
    \/ ScriptStep
    \/ ScriptEnd
    \/ WorkerExit
    \/ Tick
    \/ AbortScript

Spec == Init /\ [][Next]_vars

(***************************************************************************)
(* Properties of the lifecycle operations                                  *)
(***************************************************************************)
UploadOps == {"recording_settings", "stimulation_settings"}

LifecycleOps == {"connect", "disconnect", "recording_settings",
                 "stimulation_settings", "start_recording", "stop_recording",
                 "start_stimulation", "run_script"}

\* the state Disconnected of a session s
Disconnected_in(s) ==
    /\ ~s.data_thread.alive
    /\ s.nvp.handle # "open"
    /\ s.local_settings = GeneralSettings
    /\ s.connected = ConnectedBoxes
    /\ ~s.tracking.box_connected
    /\ ~s.tracking.recording
    /\ ~s.tracking.recording_settings_uploaded
    /\ ~s.tracking.stimulation_settings_uploaded

Disconnected == Disconnected_in(Self)

\* C1: after an upload of recording or stimulation settings that returns
\* failure, the live settings and the uploaded baseline are what they were
\* before the call.
C1_FailedUploadKeepsSettings ==
    [][(ret'.op \in UploadOps /\ ~ret'.raised /\ ~ret'.ok)
       => (local_settings' = local_settings
           /\ uploaded_settings' = uploaded_settings)]_vars

\* an upload of recording settings failed at the device after the device took
\* part of the working copy
C1_Witness ==
    /\ ret.op = "recording_settings"
    /\ ~ret.raised
    /\ ret.msg = "UploadError"
    /\ nvp.chan_sel # {}

\* C2: after a successful connect, upload of recording settings, upload of
\* stimulation settings or load of the default settings, the live settings and
\* the uploaded baseline are the same working copy.
C2_CommitMakesLiveAndBaselineEqual ==
    (ret.op \in {"connect", "recording_settings", "stimulation_settings",
                 "default_settings"} /\ ret.ok)
    => local_settings = uploaded_settings

\* an upload of stimulation settings succeeded and its working copy, with a
\* stimulation unit in it, is the live settings
C2_Witness ==
    /\ ret.op = "stimulation_settings"
    /\ ret.ok
    /\ \E box \in DOMAIN local_settings.boxes :
           \E probe \in DOMAIN local_settings.boxes[box].probes :
               DOMAIN local_settings.boxes[box].probes[probe].stim_unit_sett # {}

\* C3: every lifecycle operation returns a (success, message) result from
\* every state and for every argument; none ends in an exception that is not
\* caught, and a script does not end in one either.
C3_NoUncaughtException ==
    /\ ret.op \in LifecycleOps => ~ret.raised
    /\ script.state # "raised"

\* C4: after disconnect or shutdown returns, the session is Disconnected; when
\* it was not connected the call returns success and the settings, the
\* topology, the status and the device are what they were.
C4_DisconnectLeavesDisconnected ==
    [][(ret'.op \in {"disconnect", "shutdown"} /\ ~ret'.raised)
       => /\ Disconnected'
          /\ (~tracking.box_connected /\ ~boxless)
             => /\ ret'.ok
                /\ UNCHANGED << local_settings, connected, uploaded_settings,
                                tracking, nvp >>]_vars

\* the device handle of session d is released and its connected status cleared
released(d) == d.nvp.handle # "open" /\ ~d.tracking.box_connected

\* C5: when connect is called in a session that is connected with an open
\* device handle, the disconnect it makes with the modes of the new session
\* releases the handle and clears the connected status.
C5_ConnectDisconnectsFirst ==
    [][(ret'.op = "connect" /\ tracking.box_connected /\ nvp.handle = "open")
       => released(disconnect([Self EXCEPT !.boxless = boxless',
                                           !.emulation = emulation'], "none"))]_vars

\* the probes a connect call selects, when its selector parses
selected(c) == SeqToSet(parse_numbers(c.probe_list, range(0, NumProbes)).val)

\* the topology and the live settings of session r hold box 0 with exactly probes
registered(r, probes) ==
    /\ DOMAIN r.connected.boxes = {0}
    /\ DOMAIN r.connected.boxes[0].probes = probes
    /\ DOMAIN r.local_settings.boxes = {0}
    /\ DOMAIN r.local_settings.boxes[0].probes = probes

\* a call of connect with a box whose selector parses and that finds one device
one_device(c) ==
    /\ ~c.bxl
    /\ parse_numbers(c.probe_list, range(0, NumProbes)).exc = "none"
    /\ c.o.devices = 1

\* a call of connect with a box whose selector parses and that finds no device
\* or several
no_single_device(c) ==
    /\ ~c.bxl
    /\ parse_numbers(c.probe_list, range(0, NumProbes)).exc = "none"
    /\ c.o.devices # 1

\* connect with one device found returned success with the initialised probes
connected_with(c, r) ==
    /\ ~r.ret.raised
    /\ r.ret.ok
    /\ registered(r, selected(c) \cap c.o.init_ok)

\* connect returned failure with no device handle open and no box connected
refused(r) ==
    /\ ~r.ret.raised
    /\ ~r.ret.ok
    /\ ~r.tracking.box_connected
    /\ r.nvp.handle # "open"

\* connect returned failure for the number of devices and a session that was
\* Disconnected still is
stays_disconnected(s, r) ==
    /\ ~r.ret.raised
    /\ ~r.ret.ok
    /\ r.ret.msg \in {"NoDeviceFound", "MultipleDevicesFound"}
    /\ Disconnected_in(s) => Disconnected_in(r)

\* C6: a connect with a box that finds exactly one device which opens returns
\* success whatever subset of the selected probes fails to initialise, and the
\* topology and the live settings then hold exactly the selected probes that
\* initialised; when the device or its probes do not open it returns failure
\* with the device released; with no device or several it returns failure and
\* a Disconnected session stays Disconnected.
C6_OneOpenedDeviceConnects ==
    \A c \in ConnectCalls :
        /\ (one_device(c) /\ c.o.fail = "none")
           => connected_with(c, connect(Self, c.probe_list, c.emu, c.bxl, c.o))
        /\ (one_device(c) /\ c.o.fail # "none")
           => refused(connect(Self, c.probe_list, c.emu, c.bxl, c.o))
        /\ no_single_device(c)
           => stays_disconnected(Self, connect(Self, c.probe_list, c.emu, c.bxl, c.o))

\* C7: every (box, probe) of the live settings is in the live topology.
C7_SettingsWithinTopology ==
    \A box \in DOMAIN local_settings.boxes :
        \A probe \in DOMAIN local_settings.boxes[box].probes :
            /\ box \in DOMAIN connected.boxes
            /\ probe \in DOMAIN connected.boxes[box].probes

\* C8: an upload of recording settings called while recording is true returns
\* the failure RecordingInProgress and changes neither the live settings, the
\* uploaded baseline nor the device.
C8_UploadWhileRecordingRejected ==
    [][(ret'.op = "recording_settings" /\ tracking.recording)
       => /\ ~ret'.raised
          /\ ~ret'.ok
          /\ ret'.msg = "RecordingInProgress"
          /\ UNCHANGED << local_settings, uploaded_settings, nvp >>]_vars

\* C9: start_recording called while not connected, outside boxless and
\* emulation mode, or while a recording is in progress returns failure and
\* changes nothing of the session.
C9_StartRecordingRejected ==
    [][(/\ ret'.op = "start_recording"
        /\ \/ ~boxless /\ ~emulation /\ ~tracking.box_connected
           \/ tracking.recording)
       => /\ ~ret'.raised
          /\ ~ret'.ok
          /\ UNCHANGED SessionState]_vars

\* start_recording was refused in a session that records
C9_Witness ==
    /\ ret.op = "start_recording"
    /\ ~ret.ok
    /\ ret.msg = "AlreadyRecording"
    /\ tracking.recording

\* the number of channel entries the baseline holds for a probe
uploaded_channels(box, probe) ==
    IF box \in DOMAIN uploaded_settings.boxes
       /\ probe \in DOMAIN uploaded_settings.boxes[box].probes
    THEN Cardinality(DOMAIN uploaded_settings.boxes[box].probes[probe].channel)
    ELSE 0

\* a probe of the topology of a connected session has fewer than 64 channel
\* entries in the uploaded baseline
incomplete_probe ==
    /\ boxless \/ tracking.box_connected
    /\ \E box \in DOMAIN connected.boxes :
           \E probe \in DOMAIN connected.boxes[box].probes :
               uploaded_channels(box, probe) < NumChannels

\* C10: outside emulation mode, start_recording called when a connected probe
\* has fewer than 64 channel entries in the uploaded baseline returns the
\* failure IncompleteRecordingSettings, does not arm the device and does not
\* set recording.
C10_IncompleteSettingsRejected ==
    [][(ret'.op = "start_recording" /\ ~emulation /\ incomplete_probe)
       => /\ ~ret'.raised
          /\ ~ret'.ok
          /\ ret'.msg = "IncompleteRecordingSettings"
          /\ nvp'.armed = nvp.armed
          /\ tracking'.recording = tracking.recording]_vars

\* the record ends with an instruction of type itype
ends_with(rec, itype) ==
    /\ rec # << >>
    /\ rec[Len(rec)].tag = "Instructions"
    /\ rec[Len(rec)].entries # << >>
    /\ rec[Len(rec)].entries[Len(rec[Len(rec)].entries)].itype = itype

\* the number of instructions in the record
RECURSIVE instructions_in(_)
instructions_in(rec) ==
    IF rec = << >> THEN 0
    ELSE Len(rec[1].entries) + instructions_in(Tail(rec))

\* stop_recording in session s ended as r: success, recording false, the start
\* time cleared and one recording_stop instruction appended to the record
stopped(s, r) ==
    /\ ~r.ret.raised
    /\ r.ret.ok
    /\ ~r.tracking.recording
    /\ r.rec_start_time = "None"
    /\ ends_with(r.journal, "recording_stop")
    /\ instructions_in(r.journal) = instructions_in(s.journal) + 1

\* stop_recording in session s ended as r: failure and nothing changed
stop_refused(s, r) ==
    /\ ~r.ret.raised
    /\ ~r.ret.ok
    /\ [r EXCEPT !.ret = s.ret] = s

\* C11: stop_recording returns failure and changes nothing when the session
\* does not record; when it records, in every connection mode, boxless
\* included, it returns success, sets recording to false, clears the start
\* time and appends a recording_stop instruction to the record.
C11_StopRecordingStops ==
    IF tracking.recording
    THEN stopped(Self, stop_recording(Self, "none"))
    ELSE stop_refused(Self, stop_recording(Self, "none"))

\* start_stimulation in session s ended as r: failure, no trigger issued and
\* nothing written to the record
stimulation_refused(s, r) ==
    /\ ~r.ret.raised
    /\ ~r.ret.ok
    /\ r.nvp.su_trigs = s.nvp.su_trigs
    /\ r.journal = s.journal

\* the session after a step that connected to a device: nothing has been
\* uploaded since
fresh_connect(r) == r.ret.op = "connect" /\ r.ret.ok /\ ~r.boxless

\* the session has no stimulation settings uploaded since its last reset
nothing_uploaded(r) ==
    ~r.tracking.stimulation_settings_uploaded \/ fresh_connect(r)

\* C12: start_stimulation returns failure, triggers nothing and writes nothing
\* to the record whenever the session does not record or no stimulation
\* settings have been uploaded since the last connect or run_script reset.
C12_StartStimulationRefused ==
    [][\A i \in StimulationStarts :
          ~tracking'.recording \/ nothing_uploaded(Self')
              => stimulation_refused(Self', start_stimulation(Self', i.boxes, i.probes,
                                                              i.SU_input, i.fail))]_vars

\* the units a start_stimulation input names, as a set of unit numbers from 0
requested_units(i) ==
    SeqToSet(parse_numbers(i.SU_input, range(0, NumSUs)).val)

\* the probes of box b the input addresses in the baseline
addressed_probes(s, i, b) ==
    {<< b, p >> : p \in SeqToSet(parse_numbers(i.probes,
                      SortedSeq(DOMAIN s.uploaded_settings.boxes[b].probes)).val)}

\* the (box, probe) pairs the input addresses in the baseline
addressed(s, i) ==
    UNION {addressed_probes(s, i, b) :
              b \in SeqToSet(parse_numbers(i.boxes,
                        SortedSeq(DOMAIN s.uploaded_settings.boxes)).val)}

\* some requested unit has no uploaded waveform settings on an addressed probe
unconfigured(s, i) ==
    \E bp \in addressed(s, i) : \E u \in requested_units(i) :
        u \notin DOMAIN s.uploaded_settings.boxes[bp[1]].probes[bp[2]].stim_unit_sett

\* the trigger mask of a set of units in the device's format: bit u for unit u
RECURSIVE unit_bits(_)
unit_bits(U) ==
    IF U = {} THEN 0
    ELSE LET u == CHOOSE x \in U : TRUE
         IN  2 ^ u + unit_bits(U \ {u})

\* the triggers of exactly the requested units on each addressed probe
requested_triggers(s, i) ==
    {<< bp[2], unit_bits(requested_units(i)) >> : bp \in addressed(s, i)}

\* the session passes the three tests at the head of start_stimulation
may_stimulate(s) ==
    /\ s.tracking.box_connected
    /\ s.tracking.recording
    /\ s.tracking.stimulation_settings_uploaded

\* start_stimulation ended as r after its trigger loop: with success, or with
\* the exception of an instruction write
past_triggers(r) ==
    \/ ~r.ret.raised /\ r.ret.ok
    \/ r.ret.raised /\ r.ret.msg = "TypeError"

RECURSIVE section_entries(_)
section_entries(sections) ==
    IF sections = << >> THEN << >>
    ELSE sections[1].entries \o section_entries(Tail(sections))

RECURSIVE record_entries(_)
record_entries(rec) ==
    IF rec = << >> THEN << >>
    ELSE section_entries(rec[1].sections) \o rec[1].entries
         \o record_entries(Tail(rec))

\* the rank of an entry in the order channel entries, stimulation entries,
\* stimulation start, recording stop; 0 for any other entry
entry_rank(e) ==
    CASE e.type = "Channel" -> 1
      [] e.type \in {"Configuration", "Mapping"} -> 2
      [] e.itype = "stimulation_start" -> 3
      [] e.itype = "recording_stop" -> 4
      [] OTHER -> 0

\* the record holds entries of the four ranks, in the order of the ranks
record_in_order(rec) ==
    LET es == record_entries(rec)
    IN  /\ \A k \in 1..4 : \E n \in 1..Len(es) : entry_rank(es[n]) = k
        /\ \A m, n \in 1..Len(es) :
               m < n /\ entry_rank(es[m]) > 0 /\ entry_rank(es[n]) > 0
                   => entry_rank(es[m]) <= entry_rank(es[n])

\* the boxless session of six steps, each step applied to the outcome of the
\* step before it
boxless_connected(s) == connect(s, << "1" >>, FALSE, TRUE, Device(1, "none", {}, "none"))
boxless_recording_set(s) == recording_settings(boxless_connected(s), NoDoc, FALSE, TRUE, NoFail)
boxless_stimulation_set(s) == stimulation_settings(boxless_recording_set(s), NoDoc, FALSE, TRUE, NoFail)
boxless_started(s) == start_recording(boxless_stimulation_set(s), << "r" >>, [fail |-> "none", path |-> "missing"])
boxless_stimulated(s) == start_stimulation(boxless_started(s), << "1" >>, << "1" >>, << "1" >>, NoFail)
boxless_stopped(s) == stop_recording(boxless_stimulated(s), "none")

succeeded(r) == ~r.ret.raised /\ r.ret.ok

\* C14: from a new session, connect (boxless), default recording settings,
\* default stimulation settings, start recording, start stimulation on unit 0
\* and stop recording all return success, and the record then holds in order
\* the channel entries, the stimulation entries, the stimulation start and the
\* recording stop.
C14_BoxlessSessionSucceeds ==
    calls = 0
        => /\ succeeded(boxless_connected(Self))
           /\ succeeded(boxless_recording_set(Self))
           /\ succeeded(boxless_stimulation_set(Self))
           /\ succeeded(boxless_started(Self))
           /\ succeeded(boxless_stimulated(Self))
           /\ succeeded(boxless_stopped(Self))
           /\ record_in_order(boxless_stopped(Self).journal)

\* the number of stimulation entries (Configuration, Mapping) in the record
stimulation_entries(rec) ==
    Cardinality({n \in 1..Len(record_entries(rec)) :
                    entry_rank(record_entries(rec)[n]) = 2})

\* the step is a start_stimulation that returned success while the uploaded
\* stimulation settings were not yet in the record
first_trigger(s, r) ==
    /\ r.ret.op = "start_stimulation"
    /\ succeeded(r)
    /\ s.tracking.stimulation_settings_written_to_stimrec = "False"

\* the step wrote the uploaded stimulation settings of s to the record, in
\* front of the instruction it ends with
settings_written(s, r) ==
    /\ r.tracking.stimulation_settings_written_to_stimrec = "True"
    /\ stimulation_entries(r.journal)
           = stimulation_entries(s.journal) + Len(stimulation_dicts(s.uploaded_settings))
    /\ r.journal # s.journal => ends_with(r.journal, "stimulation_start")

\* C15: the uploaded stimulation settings are written to the record once for
\* each upload: by the first start_stimulation after it that succeeds, in front
\* of the instruction of that trigger, and by no other step.
C15_SettingsWrittenOncePerUpload ==
    [][/\ first_trigger(Self, Self') => settings_written(Self, Self')
       /\ stimulation_entries(journal') > stimulation_entries(journal)
              => first_trigger(Self, Self') /\ settings_written(Self, Self')]_vars

\* NVP.init of probe 0 succeeds in session s when the device lets it
reopened(s, init_ok) ==
    init_ok /\ 0 \in DOMAIN s.box_ptrs /\ s.nvp.handle = "open"

\* a map of boxes holds box 0 only, with probe 0 only, present iff present
only_box_0(boxes, present) ==
    /\ DOMAIN boxes = {0}
    /\ DOMAIN boxes[0].probes = IF present THEN {0} ELSE {}

\* the session is reset around box 0 and probe 0
session_reset(r, present) ==
    /\ only_box_0(r.local_settings.boxes, present)
    /\ only_box_0(r.uploaded_settings.boxes, present)
    /\ only_box_0(r.connected.boxes, present)
    /\ present => /\ r.local_settings.boxes[0].probes[0] = ProbeSettings
                  /\ r.uploaded_settings.boxes[0].probes[0] = ProbeSettings
    /\ ~r.tracking.recording
    /\ ~r.tracking.recording_settings_uploaded
    /\ ~r.tracking.stimulation_settings_uploaded

C17_ScriptInDocumentOrder ==
    [][script'.log # script.log /\ script'.log # << >>
          => /\ Len(script.log) < Len(script.doc)
             /\ script'.doc = script.doc
             /\ script'.log = Append(script.log,
                                     [entry |-> script.doc[Len(script.log) + 1],
                                      at |-> clock])]_vars

\* both entries of a script were called, the first with the later start_time
C17_Witness ==
    /\ Len(script.log) = 2
    /\ script.log[1].entry.start_time > script.log[2].entry.start_time
    /\ script.log[1].entry = script.doc[1]
    /\ script.log[2].entry = script.doc[2]

\* C18: when the call of a script entry fails, in whatever way, the loop of
\* run_script still makes the calls of all later entries: it never stops while
\* entries of the script are left uncalled.
C18_LaterEntriesStillCalled ==
    script.state = "raised" => Len(script.log) = Len(script.doc)

\* the entry is a settings entry
is_settings(e) == e.kind \in {"Channel", "Configuration", "Mapping"}

\* the calls of recording_start among the first n calls of the log
starts_before(log, n) == {j \in 1..n : log[j].entry.kind = "recording_start"}

\* the anchor of the k-th call of the log: the start of the script for a
\* settings entry, the instant of the last recording_start call for an
\* instruction behind one
has_anchor(scr, k) ==
    is_settings(scr.log[k].entry) \/ starts_before(scr.log, k - 1) # {}

anchor(scr, k) ==
    IF is_settings(scr.log[k].entry) THEN scr.started
    ELSE scr.log[CHOOSE j \in starts_before(scr.log, k - 1) :
                     \A i \in starts_before(scr.log, k - 1) : i <= j].at

\* C19: no call of a script entry is made before the clock reaches anchor +
\* start_time, the anchor being the instant the script started for a settings
\* entry and the instant recording_start was called for the instructions
\* behind it.
C19_NoCallBeforeItsTime ==
    \A k \in 1..Len(script.log) :
        has_anchor(script, k)
            => script.log[k].at >= anchor(script, k) + script.log[k].entry.start_time

\* C20: once an abort is requested while a script runs, run_script makes no call
\* for any entry behind the one it was waiting for or calling at the request:
\* at most one call is added to the calls made before the request.
C20_AbortStopsScript ==
    script.abort_at >= 0 => Len(script.log) <= script.abort_at + 1

(***************************************************************************)
(* Functions applied on their own: the arguments are drawn at the start,   *)
(* one step applies the function to them.                                  *)
(***************************************************************************)
MaxExprLen == 4

ExprChars == {"1", "2", "4", ",", "-", "a", "+"}

\* "1,2,3,4-6,8" and "6-4", the examples of the docstring of parse_numbers
LongExpr == << "1", ",", "2", ",", "3", ",", "4", "-", "6", ",", "8" >>
SwappedExpr == << "6", "-", "4" >>

Exprs == UNION {[1..n -> ExprChars] : n \in 0..MaxExprLen} \cup {LongExpr, SwappedExpr}

\* the lists the callers pass as all_values: list(range(n)) and the keys of a
\* dict in the order they were inserted, which for stim_unit_sett is the order
\* of the Configuration records of the document
Universes == {range(0, 10), range(0, 4), << 0 >>, << 0, 1, 3 >>, << >>, << 1, 0 >>}

Session == << SessionState, ret, script, calls, clock, abort_file >>

Drawn(fn, args) == applied = [fn |-> fn, args |-> args, done |-> FALSE, result |-> << >>]

Applies(result) ==
    /\ ~applied.done
    /\ applied' = [applied EXCEPT !.done = TRUE, !.result = result]
    /\ UNCHANGED << Session, worker, uploads >>

ParseNumbers ==
    /\ applied.fn = "parse_numbers"
    /\ Applies(parse_numbers(applied.args[1], applied.args[2]))

MaxRefLen == 3

RefChars == {"b", "1", "2", "8", "9", ",", "-"}

\* "b,2", the body reference and reference 2
BodyAndTwo == << "b", ",", "2" >>

RefExprs == UNION {[1..n -> RefChars] : n \in 0..MaxRefLen}

\* the attributes of a Channel record with these references
ChannelAttrib(references) == [references |-> references, gain |-> << "0" >>, input |-> << "0" >>]

\* channel[channel].get_refs of the upload, for the ChanSettings that
\* overwrite_settings made of a record
sent_reference(chan) == IF chan.exc # "none" THEN chan ELSE get_refs(chan.val)

GetRefs ==
    /\ applied.fn = "get_refs"
    /\ Applies(sent_reference(ChanSettings_from_dict(ChannelAttrib(applied.args[1]))))

\* the unit lists parse_numbers returns: ascending, or in the order of the keys
\* of stim_unit_sett for "-"
SULists == {SortedSeq(S) : S \in SUBSET (0..(NumSUs - 1))} \cup {<< 1, 0 >>, << 2, 0 >>}

SUListToBitmask ==
    /\ applied.fn = "_SU_list_to_bitmask"
    /\ Applies(Return(SU_list_to_bitmask(applied.args[1])))

\* SUs of start_stimulation: the 1-indexed places of "1" in bin(mask)[2:]
SUs(mask) == SortedSeq({index \in 1..Len(bin(mask)) : bin(mask)[index] = "1"})

\* a probe of the uploaded settings with exactly these units configured
ProbeWithUnits(units) ==
    [ProbeSettings EXCEPT !.stim_unit_elec = [su \in units |-> << 0 >>]]

\* start_stimulation from the bitmask of one probe to the lookups of its units
MaskUnits ==
    /\ applied.fn = "start_stimulation"
    /\ LET mask == SU_list_to_bitmask(applied.args[1])
       IN  Applies([SUs |-> SUs(mask),
                    lookups |-> mask_of(ProbeWithUnits(SeqToSet(applied.args[1])), mask)])

MaxBatchLen == 2

\* records that sit in a section of another kind: overwrite_settings tests the
\* tag of the section (line 166) and then the tag of the record (178, 192, 205)
MisplacedRecords ==
    {[Configuration(<< "1" >>, << "1" >>, << "1" >>, << "0" >>, << "5" >>, << "1", "7", "0" >>) EXCEPT !.section = "RecordingSettings"],
     [Channel(<< "1" >>, << "1" >>, << "1" >>, << "b" >>, << "1" >>, << "0" >>) EXCEPT !.section = "StimulationMappingSettings"]}

\* the records of a batch: addresses that exist and that do not, ranges, values
\* inside and outside the allowed ones
BatchRecords ==
    {Channel(<< "1" >>, probe, channel, references, gain, << "0" >>) :
        probe \in {<< "1" >>, << "-" >>}, channel \in {<< "2", "-", "1" >>},
        references \in {<< "b" >>, << "b", ",", "2" >>}, gain \in {<< "1" >>, << "9" >>}}
    \cup {Configuration(box, << "-" >>, stimunit, polarity, amplitude1, << "1", "7", "0" >>) :
             box \in {<< "1" >>, << "2" >>}, stimunit \in {<< "2", ",", "1" >>},
             polarity \in {<< "0" >>, << "2" >>}, amplitude1 \in {<< "1" >>, << "5" >>}}
    \cup {Mapping(<< "1" >>, probe, << "1" >>, electrodes) :
             probe \in {<< "1" >>, << "2" >>},
             electrodes \in {<< "1" >>, << "2", "-", "1" >>}}
    \cup MisplacedRecords

Batches == UNION {[1..n -> BatchRecords] : n \in 0..MaxBatchLen}

\* a working copy with box 0 and these probes, nothing configured
WorkingCopy(probes) == [boxes |-> [box \in {0} |-> [probes |-> [probe \in probes |-> ProbeSettings]]]]

WorkingCopies ==
    {GeneralSettings, WorkingCopy({0}), WorkingCopy({0, 1}),
     overwrite_settings(default_settings_xml, WorkingCopy({0, 1}), "all").val}

\* overwrite_settings with a batch, and again with the same batch on what the
\* first call returned
OverwriteTwice ==
    /\ applied.fn = "overwrite_settings"
    /\ LET once == overwrite_settings(applied.args[1], applied.args[2], applied.args[3])
       IN  Applies([once |-> once,
                    twice |-> overwrite_settings(applied.args[1], once.val, applied.args[3])])

\* _extract_bits of data_thread.py on the status word of a sample: plain
\* Python integers
extract_bits(value) ==
    << ((value \div 2) % 2) * 65535, ((value \div 4) % 2) * 65536 >>

Uint16 == 65536
ZeroedEvery == 40

\* np.asarray(values, dtype="uint16") on Python integers: a value that does not
\* fit wraps or raises OverflowError, as the numpy of the build does
asarray_uint16(values, wraps) ==
    IF \A i \in DOMAIN values : values[i] < Uint16 THEN Return(values)
    ELSE IF wraps THEN Return([i \in DOMAIN values |-> values[i] % Uint16])
    ELSE Raise("OverflowError")

\* databuffer.astype("uint16") of _prepare_databuffer on the appended rows
astype_uint16(values) == [i \in DOMAIN values |-> values[i] % Uint16]

\* the two rows send_data appends for one sample of batch counter: TTL_bits of
\* lines 143-151, then the concatenation and the cast of _prepare_databuffer
appended_channels(status, counter, wraps) ==
    LET TTL_bits == asarray_uint16(extract_bits(status), wraps)
    IN  IF TTL_bits.exc # "none" THEN TTL_bits
        ELSE IF counter % ZeroedEvery = 0 THEN Return(astype_uint16(<< 0, 0 >>))
        ELSE Return(astype_uint16(TTL_bits.val))

\* status words with every combination of bits 0 to 3, and all bits of a byte
StatusWords == (0..15) \cup {255}
Counters == {1, 2, 39, 40, 41, 80}

AppendedChannels ==
    /\ applied.fn = "_extract_bits"
    /\ Applies(appended_channels(applied.args[1], applied.args[2], applied.args[3]))

InitApplied ==
    /\ SessionInit
    /\ worker = NoWorker
    /\ uploads = NoUploads
    /\ \/ \E numstr \in Exprs, all_values \in Universes : Drawn("parse_numbers", << numstr, all_values >>)
       \/ \E refstr \in RefExprs : Drawn("get_refs", << refstr >>)
       \/ \E SU_list \in SULists : Drawn("_SU_list_to_bitmask", << SU_list >>)
       \/ \E SU_list \in SULists \ {<< >>} : Drawn("start_stimulation", << SU_list >>)
       \/ \E status \in StatusWords, counter \in Counters, wraps \in BOOLEAN : Drawn("_extract_bits", << status, counter, wraps >>)
       \/ \E data_xml \in Batches, settings \in WorkingCopies, check_topic \in {"all", "recording", "stimulation"} : Drawn("overwrite_settings", << data_xml, settings, check_topic >>)

NextApplied ==
    \/ ParseNumbers
    \/ GetRefs
    \/ SUListToBitmask
    \/ MaskUnits
    \/ AppendedChannels
    \/ OverwriteTwice

SpecApplied == InitApplied /\ [][NextApplied]_vars

Applied(fn) == applied.fn = fn /\ applied.done

(***************************************************************************)
(* The streaming worker (src/viperboxinterface/data_thread.py), statement  *)
(* by statement: worker holds the _DataSenderThread object, the position   *)
(* pc of its worker thread and the position main of the thread that calls  *)
(* pause, stop and shutdown. Time is counted in bufferInterval, the        *)
(* duration of one batch.                                                  *)
(***************************************************************************)
MaxTime == 10
MaxStarts == 2
NumEmptyFrames == 10

NoFrame == [batch |-> 0, at |-> 0, closed |-> FALSE, waited |-> FALSE]

\* _DataSenderThread.__init__: no thread, no event, both sockets open
DataSender ==
    [pc |-> "none", thread |-> "None", stop_stream |-> "None", exc |-> "none",
     handles |-> 0, counter |-> 0, t0 |-> 0, now |-> 0, count |-> "none",
     frames |-> 0, frame |-> NoFrame, tcpServer |-> "open", tcpClient |-> "open",
     main |-> "idle", main_exc |-> "none", starts |-> 0, waited |-> FALSE,
     started_closed |-> FALSE]

\* thread.is_alive()
is_alive(w) == w.pc \notin {"none", "done", "dead"}

\* thread.join() returns once the worker thread has ended
join(w) == ~is_alive(w)

Runs(w) == worker' = w /\ UNCHANGED << Session, applied, uploads >>

\* an uncaught exception ends the worker thread
dies(w, e) == [w EXCEPT !.pc = "dead", !.exc = e]

\* tcpClient.sendto(header + databuffer): OSError on a closed socket
sendto(w) ==
    IF w.tcpClient = "closed" THEN dies(w, "OSError")
    ELSE [w EXCEPT !.frames = @ + 1,
                   !.frame = [batch |-> w.counter, at |-> w.now - w.t0,
                              closed |-> w.tcpClient = "closed",
                              waited |-> w.waited]]

\* start(recording_path, probe, empty)
start(w, empty) ==
    IF w.thread # "None" /\ is_alive(w) THEN w
    ELSE [w EXCEPT !.stop_stream = "clear",
                   !.thread = IF empty THEN "_send_empty" ELSE "send_data",
                   !.pc = "begin", !.exc = "none", !.count = "none",
                   !.frames = 0, !.frame = NoFrame, !.waited = FALSE,
                   !.started_closed = w.tcpClient = "closed",
                   !.starts = @ + 1]

\* start is called by start_recording and connect_oe, in the thread of the
\* requests or in the thread of run_script: the thread of the requests may be
\* inside stop or shutdown when the script calls it
SenderStart ==
    /\ worker.starts < MaxStarts
    /\ \E empty \in BOOLEAN : Runs(start(worker, empty))

\* stop_stream.set(), of pause, stop and shutdown: the event is None before
\* the first start
set(w, then) ==
    IF w.stop_stream = "None" THEN [w EXCEPT !.main_exc = "AttributeError"]
    ELSE [w EXCEPT !.stop_stream = "set", !.main = then, !.main_exc = "none",
                   !.waited = is_alive(w)]

SenderPause ==
    /\ worker.main = "idle"
    /\ Runs(set(worker, "idle"))

\* stop(): set, then join
SenderStop ==
    /\ worker.main = "idle"
    /\ Runs(set(worker, "stop_join"))

SenderStopJoin ==
    /\ worker.main = "stop_join"
    /\ join(worker)
    /\ Runs([worker EXCEPT !.main = "idle"])

\* shutdown(): stop(), then both sockets are closed
SenderShutdown ==
    /\ worker.main = "idle"
    /\ Runs(set(worker, "shutdown_join"))

SenderShutdownJoin ==
    /\ worker.main = "shutdown_join"
    /\ join(worker)
    /\ Runs([worker EXCEPT !.main = "shutdown_close"])

SenderShutdownClose ==
    /\ worker.main = "shutdown_close"
    /\ Runs([worker EXCEPT !.tcpServer = "closed", !.tcpClient = "closed",
                           !.main = "idle"])

\* the head of the worker: send_data opens the recording with
\* NVP.streamOpenFile, which raises or returns a handle; both set counter and t0
WorkerBegin ==
    /\ worker.pc = "begin"
    /\ \/ /\ worker.thread = "send_data"
          /\ \E opened \in BOOLEAN :
                Runs(IF ~opened THEN dies(worker, "NVPError")
                     ELSE [worker EXCEPT !.pc = "test", !.handles = @ + 1,
                                         !.counter = 0, !.t0 = worker.now])
       \/ /\ worker.thread = "_send_empty"
          /\ Runs([worker EXCEPT !.pc = "empty_send", !.counter = 0,
                                 !.t0 = worker.now])

\* while not self.stop_stream.is_set(): counter += 1
WorkerTest ==
    /\ worker.pc = "test"
    /\ Runs(IF worker.stop_stream = "set" THEN [worker EXCEPT !.pc = "close"]
            ELSE [worker EXCEPT !.pc = "read", !.counter = @ + 1])

\* the rest of the iteration, from NVP.streamReadData on, for the number of
\* packets read: none ends the loop; fewer than NUM_SAMPLES = 500 raise
\* IndexError at packets[i] for i in range(500); NUM_SAMPLES make the
\* databuffer, which _prepare_databuffer returns as bytes, and raise
\* AttributeError at print(databuffer.shape), before sendto
WorkerRead ==
    /\ worker.pc = "read"
    /\ \E count \in {"zero", "short", "full"} :
          Runs(LET w == [worker EXCEPT !.count = count]
               IN  IF count = "zero" THEN [w EXCEPT !.pc = "close"]
                   ELSE IF count = "short" THEN dies(w, "IndexError")
                   ELSE dies(w, "AttributeError"))

\* NVP.streamClose(send_data_read_handle), after the loop
WorkerClose ==
    /\ worker.pc = "close"
    /\ Runs([worker EXCEPT !.pc = "done", !.handles = @ - 1])

\* one frame of _send_empty: counter += 1 and sendto
EmptySend ==
    /\ worker.pc = "empty_send"
    /\ Runs(LET w == sendto([worker EXCEPT !.counter = @ + 1])
            IN  IF w.pc = "dead" THEN w ELSE [w EXCEPT !.pc = "empty_pace"])

\* while (t2 - t0) < counter * self.bufferInterval: t2 = self._time()
EmptyPace ==
    /\ worker.pc = "empty_pace"
    /\ worker.now - worker.t0 >= worker.counter
    /\ Runs([worker EXCEPT !.pc = IF worker.counter = NumEmptyFrames THEN "done"
                                  ELSE "empty_send"])

\* time passes
Elapse ==
    /\ worker.now < MaxTime
    /\ Runs([worker EXCEPT !.now = @ + 1])

InitStream ==
    /\ SessionInit
    /\ applied = NoCall
    /\ worker = DataSender
    /\ uploads = NoUploads

WorkerNext ==
    \/ WorkerBegin
    \/ WorkerTest
    \/ WorkerRead
    \/ WorkerClose
    \/ EmptySend
    \/ EmptyPace

NextStream ==
    \/ SenderStart
    \/ SenderPause
    \/ SenderStop
    \/ SenderStopJoin
    \/ SenderShutdown
    \/ SenderShutdownJoin
    \/ SenderShutdownClose
    \/ WorkerNext
    \/ Elapse

SpecStream == InitStream /\ [][NextStream]_vars

\* the scheduler runs a thread that can take a step
SpecStreamFair == SpecStream /\ WF_vars(WorkerNext)

(***************************************************************************)
(* Properties of the range parser                                          *)
(***************************************************************************)
\* the items of an expression: the stretches between its commas, each given by
\* the positions of its first and last character
item_spans(e) ==
    {sp \in (1..(Len(e) + 1)) \X (0..Len(e)) :
        /\ sp[1] <= sp[2] + 1
        /\ sp[1] = 1 \/ e[sp[1] - 1] = ","
        /\ sp[2] = Len(e) \/ e[sp[2] + 1] = ","
        /\ \A i \in sp[1]..sp[2] : e[i] # ","}

item_texts(e) == {SubSeq(e, sp[1], sp[2]) : sp \in item_spans(e)}

\* the position of the dash of a range a-b
range_dash(it) ==
    {i \in 2..(Len(it) - 1) :
        it[i] = "-" /\ IsNumeric(SubSeq(it, 1, i - 1))
                    /\ IsNumeric(SubSeq(it, i + 1, Len(it)))}

is_item(it) == IsNumeric(it) \/ range_dash(it) # {}

grammatical(e) == e = << "-" >> \/ \A it \in item_texts(e) : is_item(it)

between(a, b) == IF a <= b THEN a..b ELSE b..a

item_ids(it) ==
    IF IsNumeric(it) THEN {DigitsToNat(it)}
    ELSE UNION {between(DigitsToNat(SubSeq(it, 1, i - 1)),
                        DigitsToNat(SubSeq(it, i + 1, Len(it)))) : i \in range_dash(it)}

\* the ids an expression denotes, "-" for all of the universe
denoted(e, U) ==
    IF e = << "-" >> THEN {n + 1 : n \in SeqToSet(U)}
    ELSE UNION {item_ids(it) : it \in item_texts(e)}

strictly_ascending(q) == \A i, j \in 1..Len(q) : i < j => q[i] < q[j]

in_universe(e, U) == {n - 1 : n \in denoted(e, U)} \subseteq SeqToSet(U)

\* C25: for a grammatical expression whose ids are all in the universe,
\* parse_numbers returns the strictly ascending list of the ids less one, a
\* range a-b standing for min(a,b)..max(a,b), and "-" gives the sorted universe
C25_ParseNumbersResult ==
    Applied("parse_numbers") /\ grammatical(applied.args[1])
                             /\ in_universe(applied.args[1], applied.args[2])
        => /\ applied.result.exc = "none"
           /\ strictly_ascending(applied.result.val)
           /\ SeqToSet(applied.result.val)
                  = {n - 1 : n \in denoted(applied.args[1], applied.args[2])}
           /\ applied.args[1] = << "-" >>
                  => applied.result.val = SortedSeq(SeqToSet(applied.args[2]))

\* "-" has been parsed against keys that are not in ascending order
C25_UnsortedUniverse ==
    /\ Applied("parse_numbers")
    /\ applied.args[1] = << "-" >>
    /\ ~strictly_ascending(applied.args[2])

\* the examples of the docstring
C25_Examples ==
    Applied("parse_numbers")
        => /\ applied.args = << LongExpr, range(0, 10) >>
                  => applied.result = Return(<< 0, 1, 2, 3, 4, 5, 7 >>)
           /\ applied.args = << SwappedExpr, range(0, 10) >>
                  => applied.result = Return(<< 3, 4, 5 >>)

\* C26: parse_numbers fails in two ways only: an expression outside the grammar
\* raises the ValueError of a malformed expression whatever the universe is,
\* a grammatical expression with an id outside the universe raises the
\* ValueError of the universe check, and every other expression is parsed
C26_ParseNumbersFailures ==
    Applied("parse_numbers")
        => /\ applied.result.exc \in {"none", "ValueError"}
           /\ ~grammatical(applied.args[1]) => applied.result.exc = "ValueError"
           /\ grammatical(applied.args[1]) /\ ~in_universe(applied.args[1], applied.args[2])
                  => applied.result.exc = "ValueError"

\* an expression with an empty item has been parsed
C26_EmptyItem ==
    /\ Applied("parse_numbers")
    /\ << >> \in item_texts(applied.args[1])
    /\ ~Contains2(applied.args[1], ",", ",")

(***************************************************************************)
(* Properties of the reference mask and of the stimulation unit bitmask    *)
(***************************************************************************)
\* a reference expression: the grammar of the range parser after b is read as
\* 0, its ids not shifted and all among the nine references
reference_ids(e) ==
    IF replace(e, "b", "0") = << "-" >> THEN 0..8
    ELSE UNION {item_ids(it) : it \in item_texts(replace(e, "b", "0"))}

valid_references(e) == grammatical(replace(e, "b", "0")) /\ reference_ids(e) \subseteq 0..8

RECURSIVE power_of_2(_)
power_of_2(i) == IF i = 0 THEN 1 ELSE 2 * power_of_2(i - 1)

bit_set(n, i) == (n \div power_of_2(i)) % 2 = 1

\* C27: for a valid reference expression the integer given to setReference has
\* bit i set, bit 0 the least significant, exactly when reference i is parsed
C27_ReferenceMaskBits ==
    Applied("get_refs") /\ valid_references(applied.args[1])
        => /\ applied.result.exc = "none"
           /\ \A i \in 0..8 : bit_set(applied.result.val, i) <=> i \in reference_ids(applied.args[1])

\* the reference of a channel written from "b,2" has been asked for
C27_BodyAndTwo ==
    /\ Applied("get_refs")
    /\ applied.args = << BodyAndTwo >>

\* C28 as the spec states it: the bit at position 7-i of the bitmask is set
\* exactly when unit i is in the list, so that units 0 and 2 give 160
C28_BitmaskHighToLow ==
    Applied("_SU_list_to_bitmask")
        => /\ \A i \in 0..(NumSUs - 1) : bit_set(applied.result.val, NumSUs - 1 - i)
                                             <=> i \in SeqToSet(applied.args[1])
           /\ applied.args[1] = << 0, 2 >> => applied.result.val = 160

\* C28: the bitmask is below 256 and its bit at position i, bit 0 the least
\* significant, is set exactly when unit i is in the list: units 0 and 2 give 5
C28_BitmaskLowToHigh ==
    Applied("_SU_list_to_bitmask")
        => /\ applied.result.val \in 0..255
           /\ \A i \in 0..(NumSUs - 1) : bit_set(applied.result.val, i)
                                             <=> i \in SeqToSet(applied.args[1])
           /\ applied.args[1] = << 0, 2 >> => applied.result.val = 5

C28_Witness ==
    /\ Applied("_SU_list_to_bitmask")
    /\ applied.args[1] = << 0, 2 >>
    /\ applied.result.val = 5

(***************************************************************************)
(* Properties of the merge engine                                          *)
(***************************************************************************)
\* C29: a batch that overwrite_settings accepts is accepted again by the
\* working copy it returned, and leaves the channels, the stimulation units and
\* the electrode maps of every probe as the first call left them
C29_OverwriteIdempotent ==
    Applied("overwrite_settings") /\ applied.result.once.exc = "none"
        => /\ applied.result.twice.exc = "none"
           /\ applied.result.twice.val = applied.result.once.val

\* a batch of a channel record and a mapping record was merged into a working
\* copy that it changed
C29_Witness ==
    /\ Applied("overwrite_settings")
    /\ applied.result.once.exc = "none"
    /\ applied.result.once.val # applied.args[2]
    /\ Len(applied.args[1]) = 2
    /\ applied.args[1][1].tag = "Channel"
    /\ applied.args[1][2].tag = "Mapping"
    /\ applied.args[3] = "all"
    /\ applied.args[2] # WorkingCopy({0})
    /\ applied.args[2] # WorkingCopy({0, 1})

\* the stimulation unit settings stored in a GeneralSettings
stored_units(settings) ==
    UNION {UNION {{settings.boxes[box].probes[probe].stim_unit_sett[su] :
                       su \in DOMAIN settings.boxes[box].probes[probe].stim_unit_sett} :
                   probe \in DOMAIN settings.boxes[box].probes} :
           box \in DOMAIN settings.boxes}

\* a value of the field p names is between the minimum and the maximum of p and
\* a whole number of steps above the minimum
within(p, unit) ==
    /\ p[3] <= unit[p[1]]
    /\ unit[p[1]] <= p[4]
    /\ (unit[p[1]] - p[3]) % p[2] = 0

\* C30: in every state, each of the 11 fields of every stimulation unit stored in
\* the live settings or in the uploaded settings is inside the [min, max] of
\* verify_params for the field and a multiple of its step above the minimum
C30_StoredUnitsWithinTable ==
    /\ {verify_params[i][1] : i \in 1..Len(verify_params)} = SeqToSet(SUFields)
    /\ Len(SUFields) = 11
    /\ \A unit \in stored_units(local_settings) \cup stored_units(uploaded_settings) :
           /\ DOMAIN unit = SeqToSet(SUFields)
           /\ \A i \in 1..Len(verify_params) : within(verify_params[i], unit)

\* a unit with an amplitude of its own is stored in the live and in the uploaded
\* settings, and a configuration with a polarity outside the table was refused
C30_Witness ==
    /\ \E unit \in stored_units(local_settings) : unit.amplitude1 = 5
    /\ \E unit \in stored_units(uploaded_settings) : unit.amplitude1 = 5
    /\ ret.op = "stimulation_settings"
    /\ ~ret.ok \/ ret.raised

(***************************************************************************)
(* Properties of the streaming worker                                      *)
(***************************************************************************)
\* the step of the worker that reads a batch
reads_batch(count) == worker.pc = "read" /\ worker'.pc # "read" /\ worker'.count = count

\* C21: when streamReadData returns fewer packets than asked for, but some, the
\* worker sends a frame again and goes on: no exception leaves it and its
\* thread does not end
C21_UnderrunRepeats ==
    [][reads_batch("short")
           => /\ worker'.exc = "none"
              /\ is_alive(worker')
              /\ worker'.frames = worker.frames + 1]_vars

\* the worker has read fewer packets than it asked for
C21_Underrun == worker.thread = "send_data" /\ worker.count = "short"

\* the steady-state worker has to end: its stop event is set or its reader has
\* returned no packet
has_to_end ==
    /\ worker.thread = "send_data"
    /\ is_alive(worker)
    /\ worker.stop_stream = "set" \/ worker.count = "zero"

\* C22: once the stop event is set or streamReadData has returned no packet,
\* the steady-state worker ends with every stream handle it opened closed; and
\* a test of the loop that finds the event set starts no further iteration
C22_WorkerEndsAndCloses ==
    /\ has_to_end ~> (~is_alive(worker) /\ worker.handles = 0)
    /\ [][worker.pc = "test" /\ worker.stop_stream = "set" => worker'.pc # "read"]_vars

\* the stop event is set while the worker is inside an iteration, and the
\* worker has ended
C22_StoppedInIteration ==
    /\ worker.thread = "send_data"
    /\ worker.waited
    /\ worker.counter = 1
    /\ ~is_alive(worker)

\* a step that closes a socket of the data sender
closes_socket ==
    \/ worker.tcpServer = "open" /\ worker'.tcpServer = "closed"
    \/ worker.tcpClient = "open" /\ worker'.tcpClient = "closed"

\* C23: however the steps of stop and shutdown and the steps of a running worker
\* interleave, the sockets are closed when the worker thread has ended, and a
\* worker that was started on open sockets never calls sendto on a closed one
C23_SocketsClosedAfterWorker ==
    /\ [][closes_socket => ~is_alive(worker)]_vars
    /\ [](worker.exc = "OSError" => worker.started_closed)

\* shutdown has waited for a running worker and closed the sockets
C23_ShutdownWaited ==
    /\ worker.waited
    /\ worker.tcpClient = "closed"
    /\ worker.main = "idle"

\* C24: the frame a worker has transmitted as its batch k was transmitted when
\* the time since the start of the worker had reached k batch durations
C24_FramePaced == worker.frames > 0 => worker.frame.at >= worker.frame.batch

\* every frame is transmitted once the wait of the frame before it is over
C24_PacedAfterSend == worker.frames > 0 => worker.frame.at >= worker.frame.batch - 1

\* a worker has transmitted its second frame
C24_SecondFrame == worker.frames = 2 /\ worker.frame.batch = 2

\* the channels of every probe of a GeneralSettings
channels_of(settings) ==
    [box \in DOMAIN settings.boxes |-> [probe \in DOMAIN settings.boxes[box].probes |-> settings.boxes[box].probes[probe].channel]]

\* the stimulation unit settings and the electrode maps of every probe
stimulation_of(settings) ==
    [box \in DOMAIN settings.boxes |-> [probe \in DOMAIN settings.boxes[box].probes |-> << settings.boxes[box].probes[probe].stim_unit_sett, settings.boxes[box].probes[probe].stim_unit_elec >>]]

\* C31: overwrite_settings with check_topic "recording" leaves the stimulation
\* unit settings and the electrode maps of the working copy as they were, and
\* with check_topic "stimulation" leaves its channels as they were, whatever
\* the records of the batch are and whatever section they sit in
C31_TopicFrame ==
    Applied("overwrite_settings")
        => /\ applied.args[3] = "recording"
                => stimulation_of(applied.result.once.val) = stimulation_of(applied.args[2])
           /\ applied.args[3] = "stimulation"
                => channels_of(applied.result.once.val) = channels_of(applied.args[2])

\* a batch with a record in a section of another kind was merged under the
\* topic of that section
C31_Misplaced ==
    /\ Applied("overwrite_settings")
    /\ applied.result.once.exc = "none"
    /\ applied.args[3] # "all"
    /\ \E i \in DOMAIN applied.args[1] :
          /\ applied.args[1][i] \in MisplacedRecords
          /\ applied.args[1][i].section \in topic_tags(applied.args[3])
    /\ applied.args[2] = WorkingCopy({0})

(***************************************************************************)
(* Properties of the script's settings entries                             *)
(***************************************************************************)
\* the loop of run_script takes a Configuration or Mapping entry in this step
\* and its upload returns success
entry_uploaded ==
    /\ script.state = "running"
    /\ script.entries # << >>
    /\ Head(script.entries).kind \in {"Configuration", "Mapping"}
    /\ script'.log = Append(script.log, [entry |-> Head(script.entries), at |-> clock])
    /\ ret'.op = "stimulation_settings"
    /\ ret'.ok

\* C32: when the script uploads a Configuration or Mapping entry with
\* success, the live settings afterwards are those of stimulation_settings
\* with the document of that entry, and the units the entry addresses hold
\* its payload: merging the entry into them again changes nothing
C32_EntryIsTheBatch ==
    [][entry_uploaded
          => LET entry == Head(script.entries)
             IN  /\ uploaded_settings'
                       = stimulation_settings(Self, xml_string(entry), FALSE, FALSE, NoFail).uploaded_settings
                 /\ uploaded_settings'
                       = overwrite_settings(<< entry.rec >>, uploaded_settings', "stimulation").val]_vars

\* the script has uploaded its Mapping entry with success: the live settings
\* hold all 8 units of probe 0
C32_MappingUploaded ==
    /\ script.state = "running"
    /\ Len(script.log) = 1
    /\ script.log[1].entry.kind = "Mapping"
    /\ Len(script.entries) + 1 = Len(script.doc)
    /\ ret.op = "stimulation_settings"
    /\ ret.ok
    /\ 0 \in DOMAIN uploaded_settings.boxes
    /\ 0 \in DOMAIN uploaded_settings.boxes[0].probes
    /\ DOMAIN uploaded_settings.boxes[0].probes[0].stim_unit_elec = 0..7

(***************************************************************************)
(* Properties of recording_settings                                        *)
(***************************************************************************)
\* the ids a selector denotes in a universe (nothing when it is refused)
denotes(numstr, all_values) ==
    LET r == parse_numbers(numstr, all_values)
    IN  IF r.exc # "none" THEN {} ELSE SeqToSet(r.val)

\* the (box, probe, channel) triples the Channel records of a batch address
\* among the probes conn, a map from each box to its probes
addressed_channels(doc, conn) ==
    UNION {UNION {{<< box, probe, channel >> :
                       probe \in denotes(doc[i].attrib.probe, conn[box]),
                       channel \in denotes(doc[i].attrib.channel, range(0, NumChannels))} :
                  box \in denotes(doc[i].attrib.box, SortedSeq(DOMAIN conn))} :
           i \in {j \in DOMAIN doc : doc[j].tag = "Channel"}}

\* the channel entries of a GeneralSettings, each with its address
channel_entries(settings) ==
    UNION {UNION {{<< box, probe, channel, settings.boxes[box].probes[probe].channel[channel] >> :
                       channel \in DOMAIN settings.boxes[box].probes[probe].channel} :
                  probe \in DOMAIN settings.boxes[box].probes} :
           box \in DOMAIN settings.boxes}

\* the stimulation unit settings and the electrode maps, each with its address
unit_entries(settings) ==
    UNION {UNION {{<< box, probe, "stim_unit_sett", su, settings.boxes[box].probes[probe].stim_unit_sett[su] >> :
                       su \in DOMAIN settings.boxes[box].probes[probe].stim_unit_sett}
                  \cup {<< box, probe, "stim_unit_elec", su, settings.boxes[box].probes[probe].stim_unit_elec[su] >> :
                            su \in DOMAIN settings.boxes[box].probes[probe].stim_unit_elec} :
                  probe \in DOMAIN settings.boxes[box].probes} :
           box \in DOMAIN settings.boxes}

\* what C33 says of the call c of recording_settings that took s to r; the
\* addresses are resolved among the probes of the working copy, which are the
\* connected probes and those of the live settings
recording_frame(s, c, r) ==
    LET doc == IF c.default_values THEN default_recording_settings ELSE c.xml.doc
        conn == gs_connected(add_connected(s.local_settings, s.connected))
        addr == addressed_channels(doc, conn)
        aside(entries) == {e \in entries : << e[1], e[2], e[3] >> \notin addr}
    IN  /\ ~c.reset => aside(channel_entries(r.local_settings)) = aside(channel_entries(s.local_settings))
        /\ c.reset => \A box \in DOMAIN conn : \A probe \in SeqToSet(conn[box]) :
                          {<< box, probe, channel >> : channel \in DOMAIN r.local_settings.boxes[box].probes[probe].channel}
                              = {t \in addr : t[1] = box /\ t[2] = probe}
        /\ unit_entries(r.local_settings) = unit_entries(s.local_settings)

C34_FailedStartChangesNothing ==
    [][/\ ret'.op = "start_recording" /\ ret'.raised
            => /\ tracking'.recording = tracking.recording
               /\ rec_start_time' = rec_start_time
               /\ stim_file_path' = stim_file_path
       /\ ret'.op = "start_recording" /\ ~tracking.recording /\ tracking'.recording
            => data_thread'.alive]_vars

\* start_recording was left by the exception of NVP.setSWTrigger
C34_TriggerFailed ==
    /\ ret.op = "start_recording"
    /\ ret.raised
    /\ ret.msg = "NVPError"
    /\ nvp.armed
    /\ ~tracking.recording

\* C35: a start_recording that returns success has started a worker of the
\* data thread for its recording: no worker of an earlier recording or of the
\* empty frames of connect_oe was alive at the call, and after it the worker
\* that is alive runs send_data on the stream of this recording
C35_RecordingHasItsWorker ==
    [][ret'.op = "start_recording" /\ ret'.ok
          => /\ ~(data_thread.thread # "None" /\ data_thread.alive)
             /\ data_thread'.alive
             /\ data_thread'.thread = "send_data"
             /\ data_thread'.rec = 1]_vars

\* a recording was started while the worker that connect_oe started was alive
C35_StartedDuringEmptyFrames ==
    /\ ret.op = "start_recording"
    /\ ret.ok
    /\ tracking.recording
    /\ data_thread.alive
    /\ data_thread.thread = "_send_empty"

(***************************************************************************)
(* Properties of the appended channels                                     *)
(***************************************************************************)
\* C36: for every sample of a full batch, after the cast to uint16 the first
\* appended channel is non-zero exactly when bit 1 of the status word is
\* set, and the second exactly when bit 2 is set
C36_AppendedChannelsFollowStatus ==
    Applied("_extract_bits")
        => /\ applied.result.exc = "none"
           /\ applied.result.val[1] # 0 <=> bit_set(applied.args[1], 1)
           /\ applied.result.val[2] # 0 <=> bit_set(applied.args[1], 2)

\* the appended channels were computed for a sample with bit 2 of its status
\* set, in a batch that is not zeroed
C36_BitTwoSet ==
    /\ Applied("_extract_bits")
    /\ applied.args[1] = 4
    /\ applied.args[2] = 1

(***************************************************************************)
(* Properties of the stimulation record over two recordings                *)
(***************************************************************************)
\* a session of two recordings on an emulated probe, each step applied to the
\* outcome of the step before it: connect, connect_oe, default stimulation
\* settings, then twice start_recording, start_stimulation of unit 0 and, in
\* between, stop_recording
two_connected(s) == connect(s, << "1" >>, TRUE, FALSE, Device(1, "none", {0}, "none"))
two_oe(s) == connect_oe(two_connected(s), FALSE, [http_ok |-> TRUE, acquire |-> FALSE])
two_uploaded(s) == stimulation_settings(two_oe(s), NoDoc, FALSE, TRUE, NoFail)
first_started(s) == start_recording(two_uploaded(s), << "r" >>, [fail |-> "none", path |-> "missing"])
first_triggered(s) == start_stimulation(first_started(s), << "1" >>, << "1" >>, << "1" >>, NoFail)
first_stopped(s) == stop_recording(first_triggered(s), "none")
later_started(s) == start_recording(first_stopped(s), << "q" >>, [fail |-> "none", path |-> "missing"])
later_triggered(s) == start_stimulation(later_started(s), << "1" >>, << "1" >>, << "1" >>, NoFail)

\* start_stimulation got past its trigger loop to the record of the recording
trigger_recorded(r) ==
    /\ r.ret.op = "start_stimulation"
    /\ r.tracking.recording
    /\ r.nvp.su_trigs # {}
    /\ r.ret.ok \/ (r.ret.raised /\ r.ret.msg = "TypeError")

\* the record holds a Configuration and a Mapping entry for each one of the
\* uploaded settings, and each stimulation_start in it has them in front of it
baseline_in_front(r) ==
    LET es == record_entries(r.journal)
    IN  /\ stimulation_entries(r.journal) = Len(stimulation_dicts(r.uploaded_settings))
        /\ \A m \in 1..Len(es) :
               entry_rank(es[m]) = 3
                   => Cardinality({n \in 1..(m - 1) : entry_rank(es[n]) = 2})
                          = Len(stimulation_dicts(r.uploaded_settings))

C39_ConnectedHasHandle ==
    tracking.box_connected => 0 \in DOMAIN box_ptrs /\ nvp.handle = "open"

\* run_script was called on a session that was never connected
C39_ScriptWithoutConnect ==
    /\ ret.op = "run_script"
    /\ calls = 1
    /\ tracking.box_connected

(***************************************************************************)
(* Properties of the units recovered from the bitmask                      *)
(***************************************************************************)
\* C40: for a non-empty list of selected units, the units start_stimulation
\* recovers from the bitmask (the 1-indexed places of "1" in its binary text,
\* each looked up at the place minus one) are the selected units, and no
\* lookup fails when exactly the selected units are configured
C40_RecoveredUnitsAreSelected ==
    Applied("start_stimulation")
        => /\ {SU - 1 : SU \in SeqToSet(applied.result.SUs)} = SeqToSet(applied.args[1])
           /\ applied.result.lookups.exc = "none"

\* the units were recovered from the bitmask of unit 1 alone
C40_UnitOneSelected ==
    /\ Applied("start_stimulation")
    /\ applied.args[1] = << 1 >>

(***************************************************************************)
(* Two settings uploads at a time: run_script runs in a thread of its own  *)
(* (server.py 341-343) while the endpoints go on serving requests, and     *)
(* recording_settings and stimulation_settings take no lock. Each upload   *)
(* is followed in four steps: the working copy, the device, and the two    *)
(* assignments of its commit.                                              *)
(***************************************************************************)
UploadCall(op, xml, reset, default_values) ==
    [op |-> op, xml |-> xml, reset |-> reset, default_values |-> default_values]

\* the uploads of the request thread: documents whose records are of the kind
\* of the upload
RequestUploads ==
    {UploadCall("recording_settings", c.xml, c.reset, c.default_values) : c \in {x \in RecordingCalls : x.fail = NoFail /\ \A i \in DOMAIN x.xml.doc : x.xml.doc[i].tag = "Channel"}}
    \cup {UploadCall("stimulation_settings", c.xml, c.reset, c.default_values) : c \in {x \in StimulationCalls : x.fail = NoFail}}

\* the upload run_script calls for a settings entry
script_upload(entry) ==
    IF entry.kind = "Channel"
    THEN UploadCall("recording_settings", xml_string(entry), FALSE, FALSE)
    ELSE UploadCall("stimulation_settings", xml_string(entry), FALSE, TRUE)

\* an upload from its first line to updated_tmp_settings: [ok, val]
working_copy(s, c) ==
    LET recording == c.op = "recording_settings"
        topic == IF recording THEN "recording" ELSE "stimulation"
        XML_data == IF c.default_values
                    THEN (IF recording THEN default_recording_settings
                          ELSE default_stimulation_settings)
                    ELSE c.xml.doc
        chk == check_xml_boxprobes_exist_and_verify_data_with_settings(
                   XML_data, s.local_settings, s.connected, topic)
        upd == update_settings_with_XML(
                   XML_data,
                   IF ~c.reset THEN chk.val
                   ELSE IF recording THEN reset_recording_settings(chk.val)
                   ELSE reset_stimulation_settings(chk.val),
                   topic)
    IN  IF ~s.boxless /\ ~s.tracking.box_connected THEN [ok |-> FALSE, val |-> << >>]
        ELSE IF recording /\ s.tracking.recording THEN [ok |-> FALSE, val |-> << >>]
        ELSE IF ~c.default_values /\ c.xml.type # "doc" THEN [ok |-> FALSE, val |-> << >>]
        ELSE IF chk.exc # "none" \/ ~chk.ok THEN [ok |-> FALSE, val |-> << >>]
        ELSE IF upd.exc # "none" THEN [ok |-> FALSE, val |-> << >>]
        ELSE [ok |-> TRUE, val |-> upd.val]

\* what the steps of an upload leave alone
UploadFrame == << connected, box_ptrs, boxless, emulation, rec_start_time, stim_file_path, recording_name, data_thread, journal, ret, script, rec_path, calls, clock, abort_file, worker, applied >>

\* thread t enters upload c and comes to its device calls, or returns failure
UploadBegin(t, c) ==
    /\ uploads.threads[t].pc = "idle"
    /\ LET w == working_copy(Self, c)
       IN  uploads' = [uploads EXCEPT
               !.threads[t] = [pc |-> IF w.ok THEN "uploading" ELSE "done",
                               call |-> c, updated_tmp_settings |-> w.val, ok |-> FALSE],
               !.overlapped = @ \/ \E o \in Threads : uploads.threads[o].pc \notin {"idle", "done"},
               !.before = IF @.set THEN @ ELSE [set |-> TRUE, s |-> Self]]
    /\ UNCHANGED << local_settings, uploaded_settings, tracking, nvp, UploadFrame >>

\* run_script comes to a settings entry and calls its upload
ScriptUploadBegin ==
    /\ script.state = "running"
    /\ script.entries # << >>
    /\ Head(script.entries).kind \in {"Channel", "Configuration", "Mapping"}
    /\ clock >= script_due(Self)
    /\ UploadBegin("script", script_upload(Head(script.entries)))

\* /recording_settings or /stimulation_settings is served
RequestUploadBegin ==
    /\ \E c \in RequestUploads : UploadBegin("request", c)

\* _upload_recording_settings or _upload_stimulation_settings of the working copy
UploadDevice ==
    /\ \E t \in Threads :
          /\ uploads.threads[t].pc = "uploading"
          /\ LET th == uploads.threads[t]
                 up == IF th.call.op = "recording_settings"
                       THEN upload_recording_settings(Self, th.updated_tmp_settings, NoFail)
                       ELSE upload_stimulation_settings(Self, th.updated_tmp_settings, NoFail)
             IN  /\ nvp' = up.val
                 /\ uploads' = [uploads EXCEPT !.threads[t].pc =
                                    IF up.exc = "none" THEN "committing" ELSE "done"]
    /\ UNCHANGED << local_settings, uploaded_settings, tracking, UploadFrame >>

\* the first assignment of the commit: self.local_settings of
\* recording_settings, self.uploaded_settings and the flags of
\* stimulation_settings
UploadCommitFirst ==
    /\ \E t \in Threads :
          /\ uploads.threads[t].pc = "committing"
          /\ uploads' = [uploads EXCEPT !.threads[t].pc = "committed"]
          /\ IF uploads.threads[t].call.op = "recording_settings"
             THEN /\ local_settings' = uploads.threads[t].updated_tmp_settings
                  /\ UNCHANGED << uploaded_settings, tracking >>
             ELSE /\ uploaded_settings' = uploads.threads[t].updated_tmp_settings
                  /\ tracking' = [tracking EXCEPT
                         !.stimulation_settings_uploaded = TRUE,
                         !.stimulation_settings_written_to_stimrec = "False"]
                  /\ UNCHANGED local_settings
    /\ UNCHANGED << nvp, UploadFrame >>

\* the second assignment, and the return: self.uploaded_settings =
\* copy.deepcopy(self.local_settings) of recording_settings,
\* self.local_settings of stimulation_settings
UploadCommitSecond ==
    /\ \E t \in Threads :
          /\ uploads.threads[t].pc = "committed"
          /\ uploads' = [uploads EXCEPT !.threads[t].pc = "done", !.threads[t].ok = TRUE]
          /\ IF uploads.threads[t].call.op = "recording_settings"
             THEN /\ uploaded_settings' = local_settings
                  /\ UNCHANGED << local_settings, tracking >>
             ELSE /\ local_settings' = uploads.threads[t].updated_tmp_settings
                  /\ tracking' = [tracking EXCEPT !.stimset_upload_times = "set"]
                  /\ UNCHANGED uploaded_settings
    /\ UNCHANGED << nvp, UploadFrame >>

\* no upload is under way
Quiet == \A t \in Threads : uploads.threads[t].pc = "idle"

\* the calls that bring the session to its uploads
UploadsConnect ==
    /\ Quiet
    /\ Connect

UploadsRunScript ==
    /\ Quiet
    /\ RunScript

NextUploads ==
    \/ UploadsConnect
    \/ UploadsRunScript
    \/ ScriptUploadBegin
    \/ RequestUploadBegin
    \/ UploadDevice
    \/ UploadCommitFirst
    \/ UploadCommitSecond

SpecUploads == Init /\ [][NextUploads]_vars

\* upload c as one call on session s
uploaded_alone(s, c) ==
    IF c.op = "recording_settings"
    THEN recording_settings(s, c.xml, c.reset, c.default_values, NoFail)
    ELSE stimulation_settings(s, c.xml, c.reset, c.default_values, NoFail)

\* both uploads have returned success, and one began while the other ran
both_uploaded ==
    /\ \A t \in Threads : uploads.threads[t].pc = "done" /\ uploads.threads[t].ok
    /\ uploads.overlapped

\* C37: when an upload of the script thread and one of the request thread
\* overlap and both return success, the live settings are those of the two
\* uploads made one after the other, in one of the two orders, from the
\* session in which the first one began
C37_UploadsSerialize ==
    both_uploaded
        => \E first \in Threads : \E second \in Threads \ {first} :
               LET r == uploaded_alone(uploaded_alone(uploads.before.s, uploads.threads[first].call), uploads.threads[second].call)
               IN  local_settings = r.local_settings

\* two overlapping uploads of different documents have both returned success
C37_BothUploaded ==
    /\ both_uploaded
    /\ uploads.threads["script"].updated_tmp_settings # uploads.threads["request"].updated_tmp_settings

====
